---------------------------- MODULE Spec2Model ----------------------------
(***************************************************************************)
(* Paradone: the peer router (src/src/peer.js), the rendezvous client      *)
(* (src/src/signal.js) and the media manager (src/src/extensions/media.js) *)
(* as state machines.                                                      *)
(*                                                                         *)
(* A message is a record holding only the properties the JavaScript object *)
(* has: a missing property is a field that is not in the record's DOMAIN.  *)
(* `mid' stands for the identity of the message object (0 for the objects  *)
(* the peer builds itself).                                                *)
(***************************************************************************)
EXTENDS Integers, Sequences, FiniteSets, TLC

VARIABLES
  conn,          \* Peer#connections: key -> readyState ("none": no entry)
  weight,        \* weight of each peer connection
  icecandidates, \* Peer#icecandidates: remote -> set of buffered candidates
  queue,         \* Peer#queue: sequence of QueuedMessage
  now,           \* Date.now()
  pendingSdp,    \* createSDPOffer/createSDPAnswer calls not yet completed
  out,           \* what the last operation transmitted: <<[on, msg]>>
  last,          \* the last operation, its arguments and its result
  cbCount,       \* mid -> how often the timeout callback was invoked
  nextMid,       \* next free message identity
  view,          \* Peer#view: sequence of NodeDescriptor
  bandwidths,    \* Gossip#bandwidths: the samples received
  parts,         \* Media#parts: part number -> Part
  opened,        \* per MediaSource created: its sourceopen event fired
  chain,         \* per MediaSource: the appends chained on promiseBuffer
                 \* that were not handed to the source buffer yet
  inflight,      \* per MediaSource: the append its source buffer executes
  submitted,     \* per MediaSource: what SourceBuffer#appendBuffer received
  complete,      \* Media#complete
  eos,           \* calls of MediaSource#endOfStream
  remotes        \* Media#remotes: remote id -> the part numbers it has

peerVars  == <<conn, weight, icecandidates, queue, now, pendingSdp, out, last,
               cbCount, nextMid>>
mediaVars == <<parts, opened, chain, inflight, submitted, complete, eos,
               remotes>>
gossipVars == <<view, bandwidths>>
peerVarsButLast == <<conn, weight, icecandidates, queue, now, pendingSdp,
                     cbCount, nextMid>>
vars      == <<conn, weight, icecandidates, queue, now, pendingSdp, out, last,
               cbCount, nextMid, view, bandwidths, parts, opened, chain,
               inflight, submitted, complete, eos, remotes>>

---------------------------------------------------------------------------
(* Bounds of the model *)
MaxSends   == 2   \* messages the application sends with a tracked identity
MaxQueue   == 2   \* longest outbound queue explored
MaxTime    == 3   \* Date.now() ranges over 0..MaxTime
MaxTimeout == 1   \* timeouts handed to send range over 1..MaxTimeout
MaxPending == 1   \* session descriptions being created at the same time
MaxMeta    == 2   \* calls of setMetadata
MaxHeads   == 1   \* calls of appendHead per MediaSource
MaxChunks  == 3   \* chunks a part is cut into
MaxSamples == 1   \* bandwidth samples received

(* Program constants *)
TTL == 3

Self    == "A"                \* Peer#id once the first view arrived
Remotes == {"B", "C"}         \* peers a PeerConnection may exist for
RemoteOrder == <<"B", "C">>   \* iteration order of Peer#connections
Keys    == Remotes \cup {"signal"}
ReadyStates == {"connecting", "open", "closing", "closed"}

forwardableTypes == <<"icecandidate", "request-peer", "offer", "answer">>
heavyTypes == {"part"}        \* the types an extension declared heavy

---------------------------------------------------------------------------
(* util.js *)
\* contains that looks at the first element only
contains_First(element, array) == array # <<>> /\ array[1] = element

contains(element, array) == \E i \in 1..Len(array) : array[i] = element

\* messageIsValid that does not ask for ttl
messageIsValid_NoTtl(msg) ==
  /\ {"type", "from", "to"} \subseteq DOMAIN msg
  /\ (contains(msg.type, <<"request-peer", "answer", "icecandidate", "offer">>)
        => "forwardBy" \in DOMAIN msg)

messageIsValid(msg) ==
  /\ {"type", "from", "to"} \subseteq DOMAIN msg
  /\ (contains(msg.type, <<"request-peer", "answer", "icecandidate", "offer">>)
        => {"ttl", "forwardBy"} \subseteq DOMAIN msg)

---------------------------------------------------------------------------
(* The router works on a record S = [conn, q, fresh, out]: the connection  *)
(* table, this.queue, the local queue of processQueue and the messages     *)
(* transmitted so far.  `tgt' says which of the two queues the `queue'     *)
(* argument of processMessage is.                                          *)

QueueOf(S, tgt) == IF tgt = "this" THEN S.q ELSE S.fresh

Push(S, tgt, el) ==
  IF tgt = "this" THEN [S EXCEPT !.q = Append(@, el)]
                  ELSE [S EXCEPT !.fresh = Append(@, el)]

\* PeerConnection#send: the message goes out on the channel to remote r
ConnSend(S, r, m) == [S EXCEPT !.out = Append(@, [on |-> r, msg |-> m])]

\* Signal#send that serializes the message as it is
SignalSend_KeepTtl(S, m) ==
  [S EXCEPT !.out = Append(@, [on |-> "signal", msg |-> m])]

\* Signal#send: ttl is forced to 0 before the message is serialized
SignalSend(S, m) ==
  [S EXCEPT !.out = Append(@, [on |-> "signal", msg |-> [ttl |-> 0] @@ m])]

Transmit(S, key, m) ==
  IF key = "signal" THEN SignalSend(S, m) ELSE ConnSend(S, key, m)

\* isConnectedWith that finds no neighbour
isConnectedWith_Never(S, remote) == FALSE

isConnectedWith(S, remote) ==
  remote \in Keys /\ S.conn[remote] = "open"

\* Gossip#isHeavy
isHeavy(message) == message.type \in heavyTypes

\* message.forwardBy.slice() with message.from pushed
Excluded(message) == Append(message.forwardBy, message.from)

\* broadcast that excludes the origin but not the relays
BroadcastTargets_OriginOnly(S, message) ==
  SelectSeq(RemoteOrder,
            LAMBDA r : /\ r # "signal"
                       /\ r # message.from
                       /\ S.conn[r] = "open")

BroadcastTargets(S, message) ==
  SelectSeq(RemoteOrder,
            LAMBDA r : /\ r # "signal"
                       /\ ~contains(r, Excluded(message))
                       /\ S.conn[r] = "open")

RECURSIVE SendAll(_, _, _)
SendAll(S, targets, message) ==
  IF targets = <<>> THEN S
  ELSE SendAll(ConnSend(S, Head(targets), message), Tail(targets), message)

\* broadcast that replaces the rendezvous channel unless it is open
Broadcast_RenewUnlessOpen(S, message) ==
  LET targets == BroadcastTargets(S, message)
      S1 == SendAll(S, targets, message)
  IN IF Len(targets) = 0 /\ message.from = Self
     THEN IF S1.conn["signal"] = "open"
          THEN [S |-> SignalSend(S1, message), ok |-> TRUE, renewed |-> FALSE]
          ELSE [S |-> [S1 EXCEPT !.conn["signal"] = "connecting"],
                ok |-> FALSE, renewed |-> TRUE]
     ELSE [S |-> S1, ok |-> TRUE, renewed |-> FALSE]

\* Peer#broadcast: the new state, the value returned and whether a new Signal
\* was stored under 'signal'
Broadcast(S, message) ==
  LET targets == BroadcastTargets(S, message)
      S1 == SendAll(S, targets, message)
  IN IF Len(targets) = 0 /\ message.from = Self
     THEN LET absent == S1.conn["signal"] = "none"
              S2 == IF absent
                    THEN [S1 EXCEPT !.conn["signal"] = "connecting"]
                    ELSE S1
          IN CASE S2.conn["signal"] = "open" ->
                    [S |-> SignalSend(S2, message), ok |-> TRUE,
                     renewed |-> absent]
               [] S2.conn["signal"] \in {"closing", "closed"} ->
                    [S |-> [S2 EXCEPT !.conn["signal"] = "connecting"],
                     ok |-> FALSE, renewed |-> TRUE]
               [] OTHER -> [S |-> S2, ok |-> FALSE, renewed |-> absent]
     ELSE [S |-> S1, ok |-> TRUE, renewed |-> FALSE]

---------------------------------------------------------------------------
(* QueuedMessage: { message, callback, timeout, timestamp }.  `opts' holds *)
(* the optional timeout and callback that were given (<<>>: neither).      *)
Element(message, opts) == [message |-> message, timestamp |-> now] @@ opts

TimeoutOf(element) ==
  IF "timeout" \in DOMAIN element THEN [timeout |-> element.timeout] ELSE <<>>

\* queueHasPeerRequest that never finds a request
queueHasPeerRequest_None(q, message) == FALSE

\* containsMatch({message: {type: 'request-peer', from, to}}, queue)
queueHasPeerRequest(q, message) ==
  \E i \in 1..Len(q) : /\ q[i].message.type = "request-peer"
                       /\ q[i].message.from = message.from
                       /\ q[i].message.to = message.to

RequestPeerMessage(to) ==
  [type |-> "request-peer", from |-> Self, to |-> to, ttl |-> TTL,
   forwardBy |-> <<>>, mid |-> 0]

RequestHeavyMessage(to) ==
  [type |-> "gossip:weight", from |-> Self, to |-> to,
   data |-> "request-heavy", mid |-> 0]

\* cx.weight.incoming (undefined when weight is not a pair)
Incoming(w) == IF "incoming" \in DOMAIN w THEN w.incoming ELSE "undefined"

\* the message sent with its route as it was
Shifted_Keep(message) == message

\* message.route.shift(): the message without the head of its route
Shifted(message) == [message EXCEPT !.route = Tail(@)]

RECURSIVE ProcessMessage(_, _, _)
RECURSIVE Send(_, _, _)

\* Peer#requestPeer
RequestPeer(S, to, opts) == Send(S, RequestPeerMessage(to), opts)

\* addMessageToQueue that asks for a peer whatever the destination
AddMessageToQueue_AskAlways(S, element, tgt) ==
  LET message == element.message IN
  IF \/ message.type # "request-peer"
     \/ ~queueHasPeerRequest(QueueOf(S, tgt), message)
  THEN LET S1 == Push(S, tgt, element)
       IN IF message.type # "request-peer"
          THEN RequestPeer(S1, message.to, TimeoutOf(element))
          ELSE S1
  ELSE S

\* addMessageToQueue of Peer#processMessage
AddMessageToQueue(S, element, tgt) ==
  LET message == element.message IN
  IF contains(message.to, <<"signal", "source">>)
  THEN Push(S, tgt, element)
  ELSE IF \/ message.type # "request-peer"
          \/ ~queueHasPeerRequest(QueueOf(S, tgt), message)
       THEN LET S1 == Push(S, tgt, element)
            IN IF message.type # "request-peer"
               THEN RequestPeer(S1, message.to, TimeoutOf(element))
               ELSE S1
       ELSE S

\* processHeavy
ProcessHeavy(S, element, tgt) ==
  LET message == element.message
      to == message.to
  IN IF \/ to \notin Keys
        \/ S.conn[to] = "none"
        \/ S.conn[to] # "open"
        \/ Incoming(weight[to]) # "heavy"
     THEN Push(Send(S, RequestHeavyMessage(to), <<>>), tgt, element)
     ELSE ConnSend(S, to, message)

\* Peer#processMessage
ProcessMessage(S, element, tgt) ==
  LET message == element.message
      to == message.to
  IN IF isHeavy(message) /\ ~contains(to, <<"signal", "source">>)
     THEN ProcessHeavy(S, element, tgt)
     ELSE IF isConnectedWith(S, to)
     THEN Transmit(S, to, message)
     ELSE IF /\ "route" \in DOMAIN message
             /\ Len(message.route) > 0
             /\ isConnectedWith(S, Head(message.route))
     THEN Transmit(S, Head(message.route), Shifted(message))
     ELSE IF contains(message.type, forwardableTypes)
     THEN LET b == Broadcast(S, message)
          IN IF b.ok THEN b.S ELSE AddMessageToQueue(b.S, element, tgt)
     ELSE AddMessageToQueue(S, element, tgt)

\* dispatchMessage that loses the message
DispatchMessage_Drop(S, message) == S

\* MessageEmitter#dispatchMessage: the message reaches the local handlers
DispatchMessage(S, message) == [S EXCEPT !.local = Append(@, message)]

\* Peer#send
Send(S, message, opts) ==
  IF ~messageIsValid(message)
  THEN [S EXCEPT !.err = TRUE]
  ELSE IF message.to = Self
  THEN DispatchMessage(S, message)
  ELSE ProcessMessage(S, Element(message, opts), "this")

\* the answer whose ttl is the one of the message answered, when it has one
Reply_KeepTtl(message, answer) ==
  [from |-> Self, to |-> message.from,
   ttl |-> IF "ttl" \in DOMAIN message THEN message.ttl ELSE TTL,
   forwardBy |-> <<>>]
  @@ (IF "forwardBy" \in DOMAIN message
      THEN [route |-> message.forwardBy] ELSE <<>>)
  @@ answer

\* the answer Peer#respondTo hands to send (route is undefined when the
\* message has no forwardBy)
Reply(message, answer) ==
  [from |-> Self, to |-> message.from, ttl |-> TTL, forwardBy |-> <<>>]
  @@ (IF "forwardBy" \in DOMAIN message
      THEN [route |-> message.forwardBy] ELSE <<>>)
  @@ answer

\* the message answered, as respondTo and the routing of the answer leave it:
\* answer.route is the array message.forwardBy itself, and processMessage
\* shifts that array when it sends the answer to the head of its route
OriginalAfterReply(S, message, answer) ==
  LET reply == Reply(message, answer)
  IN IF /\ "forwardBy" \in DOMAIN message
        /\ messageIsValid(reply)
        /\ reply.to # Self
        /\ ~(isHeavy(reply) /\ ~contains(reply.to, <<"signal", "source">>))
        /\ ~isConnectedWith(S, reply.to)
        /\ Len(reply.route) > 0
        /\ isConnectedWith(S, Head(reply.route))
     THEN [message EXCEPT !.forwardBy = Tail(@)]
     ELSE message

\* Peer#respondTo
RespondTo(S, message, answer) == Send(S, Reply(message, answer), <<>>)

\* forward without the decrement of ttl
Forwarded_KeepTtl(message) ==
  [message EXCEPT !.forwardBy = Append(@, Self)]

\* the message Peer#forward hands to send
Forwarded(message) ==
  [message EXCEPT !.ttl = @ - 1, !.forwardBy = Append(@, Self)]

\* Peer#forward
Forward(S, message) == Send(S, Forwarded(message), <<>>)

\* the router's view of the current state
Here == [conn |-> conn, q |-> queue, fresh |-> <<>>, out |-> <<>>,
         local |-> <<>>, err |-> FALSE]

---------------------------------------------------------------------------
(* Maintenance: processQueue and cleanConnections *)

\* (now - timestamp) > timeout, for an element that has a numeric timeout
Elapsed(elt) == "timeout" \in DOMAIN elt /\ (now - elt.timestamp) > elt.timeout

\* an elapsed element is dropped without its callback
InvokeCallback_Skip(cb, elt) == cb

\* elt.callback(): the application's timeout callback runs
InvokeCallback(cb, elt) ==
  IF "callback" \in DOMAIN elt
  THEN [cb EXCEPT ![elt.message.mid] = @ + 1]
  ELSE cb

\* the forEach of processQueue over the elements this.queue held at its start
RECURSIVE RunQueue(_, _)
RunQueue(acc, elts) ==
  IF elts = <<>> THEN acc
  ELSE LET elt == Head(elts) IN
       IF Elapsed(elt)
       THEN RunQueue([acc EXCEPT !.cb = InvokeCallback(@, elt),
                                 !.expired = @ \cup {elt.message.mid}],
                     Tail(elts))
       ELSE RunQueue([acc EXCEPT !.S = ProcessMessage(@, elt, "fresh"),
                                 !.processed = @ \cup {elt.message.mid}],
                     Tail(elts))

\* cleanConnections that leaves the closed connections in the table
CleanConnections_KeepClosed(c, idle, closeTo) ==
  [k \in Keys |->
     IF k = "signal" \/ c[k] = "none" THEN c[k]
     ELSE IF c[k] = "open" /\ k \in idle THEN "closing" ELSE c[k]]

\* cleanConnections: `idle' are the connections whose last activity is older
\* than the threshold, `closeTo' the readyState a connection has right after
\* close() was called on it
CleanConnections(c, idle, closeTo) ==
  [k \in Keys |->
     IF k = "signal" \/ c[k] = "none" THEN c[k]
     ELSE LET st == IF c[k] = "open" /\ k \in idle THEN closeTo ELSE c[k]
          IN IF st = "closed" THEN "none" ELSE st]

Light == [incoming |-> "light", outgoing |-> "light"]

\* the weight of the connections that are left in the table
WeightAfter(c) == [r \in Remotes |-> IF c[r] = "none" THEN Light ELSE weight[r]]

\* processQueue, run by the interval timer (`again' tells a tick from the
\* tick before it)
Tick(idle, closeTo) ==
  \E acc \in {RunQueue([S |-> Here, cb |-> cbCount, expired |-> {},
                        processed |-> {}], queue)} :
  LET c == CleanConnections(acc.S.conn, idle, closeTo)
  IN /\ conn' = c
     /\ weight' = WeightAfter(c)
     /\ queue' = acc.S.fresh
     /\ cbCount' = acc.cb
     /\ out' = acc.S.out
     /\ last' = [op |-> "tick", processed |-> acc.processed,
                 expired |-> acc.expired, again |-> last.op = "tick" /\ ~last.again]
     /\ UNCHANGED <<icecandidates, now, pendingSdp, nextMid>>
     /\ UNCHANGED <<mediaVars, gossipVars>>

\* time passes
Advance ==
  /\ now < MaxTime
  /\ now' = now + 1
  /\ out' = <<>>
  /\ last' = [op |-> "time"]
  /\ UNCHANGED <<conn, weight, icecandidates, queue, pendingSdp, cbCount,
                 nextMid>>
  /\ UNCHANGED <<mediaVars, gossipVars>>

---------------------------------------------------------------------------
(* The application's calls *)

\* what a router call leaves behind
Commit(S, l) ==
  \E R \in {S} :
  /\ Len(R.q) <= MaxQueue
  /\ conn' = R.conn
  /\ queue' = R.q
  /\ out' = R.out
  /\ last' = l
  /\ UNCHANGED <<weight, icecandidates, now, pendingSdp, cbCount>>
  /\ UNCHANGED <<mediaVars, gossipVars>>

\* peer.send(message, timeout, callback) with a message object of its own
SendCall(message, opts) ==
  /\ nextMid <= MaxSends
  /\ ("timeout" \in DOMAIN opts => now + opts.timeout < MaxTime)
  /\ LET m == [mid |-> nextMid] @@ message
     IN \E S \in {Send(Here, m, opts)} :
          Commit(S, [op |-> "send", arg |-> m, err |-> S.err,
                     local |-> S.local])
  /\ nextMid' = nextMid + 1

\* peer.forward(message), called for a received message that is for another
ForwardCall(message) ==
  /\ Commit(Forward(Here, message),
            [op |-> "forward", arg |-> message, handed |-> Forwarded(message)])
  /\ UNCHANGED nextMid

\* peer.broadcast(message)
BroadcastCall(message) ==
  /\ \E b \in {Broadcast(Here, message)} :
       Commit(b.S, [op |-> "broadcast", arg |-> message, ok |-> b.ok,
                    renewed |-> b.renewed])
  /\ UNCHANGED nextMid

---------------------------------------------------------------------------
(* Handlers of the peer *)

RECURSIVE SendEach(_, _)
SendEach(S, elts) ==
  IF elts = <<>> THEN S
  ELSE SendEach(Send(S, Head(elts).message, <<>>), Tail(elts))

\* onconnected that leaves the queue as it is
OnConnected_KeepQueued(S, remote) == S

\* onconnected: the new router state; this.queue ends as the rest
OnConnected(S, remote) ==
  LET messageToSend == SelectSeq(S.q, LAMBDA elt : elt.message.to = remote)
      rest == SelectSeq(S.q, LAMBDA elt : elt.message.to # remote)
  IN [SendEach(S, messageToSend) EXCEPT !.q = rest]

Lifecycle == {<<"connecting", "open">>, <<"open", "closing">>,
              <<"open", "closed">>, <<"closing", "closed">>}

\* the data channel to remote r opens: readyState becomes open and the
\* connection dispatches the internal `connected' message
ChannelOpen(r) ==
  /\ conn[r] = "connecting"
  /\ LET S == OnConnected([Here EXCEPT !.conn[r] = "open"], r)
     IN Commit(S, [op |-> "connected", from |-> r])
  /\ UNCHANGED nextMid

\* the data channel to remote r starts closing or is closed
ChannelDown(r, st) ==
  /\ <<conn[r], st>> \in Lifecycle
  /\ st # "open"
  /\ conn' = [conn EXCEPT ![r] = st]
  /\ out' = <<>>
  /\ last' = [op |-> "transport"]
  /\ UNCHANGED <<weight, icecandidates, queue, now, pendingSdp, cbCount,
                 nextMid>>
  /\ UNCHANGED <<mediaVars, gossipVars>>

\* Signal#readyState follows the WebSocket's
SignalEvent(st) ==
  /\ \/ <<conn["signal"], st>> \in Lifecycle
     \/ conn["signal"] = "connecting" /\ st = "closed"
  /\ conn' = [conn EXCEPT !["signal"] = st]
  /\ out' = <<>>
  /\ last' = [op |-> "transport"]
  /\ UNCHANGED <<weight, icecandidates, queue, now, pendingSdp, cbCount,
                 nextMid>>
  /\ UNCHANGED <<mediaVars, gossipVars>>

\* onicecandidate
OnIceCandidate(message) ==
  LET from == message.from
      candidate == message.data
  IN /\ IF conn[from] = "none"
        THEN /\ icecandidates' = [icecandidates EXCEPT ![from] = @ \cup {candidate}]
             /\ last' = [op |-> "icecandidate", from |-> from, applied |-> {}]
        ELSE /\ UNCHANGED icecandidates
             /\ last' = [op |-> "icecandidate", from |-> from,
                         applied |-> {candidate}]
     /\ out' = <<>>
     /\ UNCHANGED <<conn, weight, queue, now, pendingSdp, cbCount, nextMid>>
     /\ UNCHANGED <<mediaVars, gossipVars>>

\* onanswer: reading readyState of a connection that does not exist throws a
\* TypeError; console.assert only logs, and setRemoteDescription is called on
\* the connection whatever its status
OnAnswer(message) ==
  LET from == message.from
  IN /\ last' = [op |-> "answer", from |-> from,
                 threw |-> conn[from] = "none",
                 asserted |-> conn[from] = "connecting",
                 applied |-> conn[from] # "none"]
     /\ out' = <<>>
     /\ UNCHANGED <<conn, weight, icecandidates, queue, now, pendingSdp,
                    cbCount, nextMid>>
     /\ UNCHANGED <<mediaVars, gossipVars>>

\* onoffer that leaves the buffered candidates where they are
OnOffer_KeepCandidates(message) ==
  LET remotePeer == message.from
  IN /\ Len(pendingSdp) < MaxPending
     /\ pendingSdp' = Append(pendingSdp, [type |-> "answer", message |-> message])
     /\ conn' = [conn EXCEPT ![remotePeer] = "connecting"]
     /\ weight' = [weight EXCEPT ![remotePeer] = Light]
     /\ out' = <<>>
     /\ last' = [op |-> "offer", from |-> remotePeer, applied |-> {}]
     /\ UNCHANGED <<icecandidates, queue, now, cbCount, nextMid>>
     /\ UNCHANGED <<mediaVars, gossipVars>>

\* onoffer: createSDPAnswer completes later (SdpReady)
OnOffer(message) ==
  LET remotePeer == message.from
  IN /\ Len(pendingSdp) < MaxPending
     /\ pendingSdp' = Append(pendingSdp, [type |-> "answer", message |-> message])
     /\ icecandidates' = [icecandidates EXCEPT ![remotePeer] = {}]
     /\ conn' = [conn EXCEPT ![remotePeer] = "connecting"]
     /\ weight' = [weight EXCEPT ![remotePeer] = Light]
     /\ out' = <<>>
     /\ last' = [op |-> "offer", from |-> remotePeer,
                 applied |-> icecandidates[remotePeer]]
     /\ UNCHANGED <<queue, now, cbCount, nextMid>>
     /\ UNCHANGED <<mediaVars, gossipVars>>

\* onrequestpeer that does not look for a connection it already has
OnRequestPeer_Always(message) ==
  LET remote == message.from
  IN /\ out' = <<>>
     /\ Len(pendingSdp) < MaxPending
     /\ pendingSdp' = Append(pendingSdp, [type |-> "offer", message |-> message])
     /\ conn' = [conn EXCEPT ![remote] = "connecting"]
     /\ weight' = [weight EXCEPT ![remote] = Light]
     /\ last' = [op |-> "request-peer", from |-> remote, created |-> TRUE]
     /\ UNCHANGED <<icecandidates, queue, now, cbCount, nextMid>>
     /\ UNCHANGED <<mediaVars, gossipVars>>

\* onrequestpeer: createSDPOffer completes later (SdpReady)
OnRequestPeer(message) ==
  LET remote == message.from
  IN /\ out' = <<>>
     /\ IF conn[remote] # "none" /\ conn[remote] # "closed"
        THEN /\ last' = [op |-> "request-peer", from |-> remote, created |-> FALSE]
             /\ UNCHANGED <<conn, weight, pendingSdp>>
        ELSE /\ Len(pendingSdp) < MaxPending
             /\ pendingSdp' = Append(pendingSdp,
                                     [type |-> "offer", message |-> message])
             /\ conn' = [conn EXCEPT ![remote] = "connecting"]
             /\ weight' = [weight EXCEPT ![remote] = Light]
             /\ last' = [op |-> "request-peer", from |-> remote, created |-> TRUE]
     /\ UNCHANGED <<icecandidates, queue, now, cbCount, nextMid>>
     /\ UNCHANGED <<mediaVars, gossipVars>>

RemoveAt(seq, i) == SubSeq(seq, 1, i - 1) \o SubSeq(seq, i + 1, Len(seq))

\* the callback of createSDPOffer / createSDPAnswer: respondTo(message, ...)
SdpReady(i) ==
  /\ i \in 1..Len(pendingSdp)
  /\ \E S \in {RespondTo(Here, pendingSdp[i].message,
                          [type |-> pendingSdp[i].type, data |-> "sdp",
                           mid |-> 0])} :
        LET p == pendingSdp[i]
        IN
        /\ Len(S.q) <= MaxQueue
        /\ conn' = S.conn
        /\ queue' = S.q
        /\ out' = S.out
        /\ last' = [op |-> "respond", to |-> p.message.from]
  /\ pendingSdp' = RemoveAt(pendingSdp, i)
  /\ UNCHANGED <<weight, icecandidates, now, cbCount, nextMid>>
  /\ UNCHANGED <<mediaVars, gossipVars>>

---------------------------------------------------------------------------
(* The peer: what the application and the network hand to it *)

Candidates == {"c1"}

Opts == {<<>>}
        \cup {[timeout |-> t] : t \in 1..MaxTimeout}
        \cup {[timeout |-> t, callback |-> TRUE] : t \in 1..MaxTimeout}

SendInputs ==
  {[type |-> "foo", from |-> Self, to |-> "B"],
   [type |-> "foo", from |-> Self, to |-> "C", ttl |-> 2, forwardBy |-> <<>>,
    route |-> <<"B">>],
   [type |-> "foo", from |-> Self, to |-> "B", ttl |-> 2, forwardBy |-> <<>>,
    route |-> <<"C">>],
   [type |-> "part", from |-> Self, to |-> "B"],
   [type |-> "request-peer", from |-> Self, to |-> "B", ttl |-> TTL,
    forwardBy |-> <<>>],
   [type |-> "foo", from |-> Self, to |-> Self],
   [type |-> "foo", from |-> Self],
   [type |-> "request-peer", from |-> Self, to |-> "B"],
   [type |-> "offer", from |-> Self, to |-> "B", ttl |-> TTL],
   [type |-> "offer", from |-> Self, to |-> "B", forwardBy |-> <<>>],
   [from |-> Self, to |-> "B"],
   [type |-> "foo", to |-> "B"]}

ForwardInputs ==
  {[type |-> "request-peer", from |-> f, to |-> "-1", ttl |-> t,
    forwardBy |-> fb, mid |-> 0] :
     f \in {"X", "C"}, t \in 0..1, fb \in {<<>>, <<"B">>}}
  \cup
  {[type |-> "foo", from |-> "X", to |-> "C", ttl |-> t, forwardBy |-> <<>>,
    mid |-> 0] : t \in 0..1}

BroadcastInputs ==
  {[type |-> "request-peer", from |-> f, to |-> "-1", ttl |-> TTL,
    forwardBy |-> fb, mid |-> 0] :
     f \in {Self, "X", "C"}, fb \in {<<>>, <<"B">>}}

IceInputs ==
  {[type |-> "icecandidate", from |-> r, to |-> Self, ttl |-> TTL,
    forwardBy |-> <<>>, data |-> c, mid |-> 0] :
     r \in Remotes, c \in Candidates}

OfferInputs ==
  {[type |-> "offer", from |-> r, to |-> Self, ttl |-> TTL,
    forwardBy |-> <<>>, data |-> "sdp", mid |-> 0] : r \in Remotes}

AnswerInputs ==
  {[type |-> "answer", from |-> r, to |-> Self, ttl |-> TTL,
    forwardBy |-> <<>>, data |-> "sdp", mid |-> 0] : r \in Remotes}

RequestPeerInputs ==
  {[type |-> "request-peer", from |-> r, to |-> Self, ttl |-> TTL,
    forwardBy |-> <<>>, mid |-> 0] : r \in Remotes}

\* no media is attached to the peer
NoMedia ==
  /\ parts = <<>>
  /\ opened = <<>>
  /\ chain = <<>>
  /\ inflight = <<>>
  /\ submitted = <<>>
  /\ complete = FALSE
  /\ eos = 0
  /\ remotes = <<>>

\* the peer once the first view gave it its id, with connection table c
PeerWith(c) ==
  /\ conn = c
  /\ weight = [r \in Remotes |-> Light]
  /\ icecandidates = [r \in Remotes |-> {}]
  /\ queue = <<>>
  /\ now = 0
  /\ pendingSdp = <<>>
  /\ out = <<>>
  /\ last = [op |-> "init"]
  /\ cbCount = [i \in 1..MaxSends |-> 0]
  /\ nextMid = 1
  /\ view = <<>>
  /\ bandwidths = <<>>

---------------------------------------------------------------------------
(* Spec: the calls of the router, from every connection table *)

Tables ==
  {c \in [Keys -> ReadyStates \cup {"none"}] : c["signal"] # "none"}

Init == NoMedia /\ \E c \in Tables : PeerWith(c)

Next ==
  \/ \E m \in SendInputs : SendCall(m, <<>>)
  \/ \E m \in ForwardInputs : ForwardCall(m)
  \/ \E m \in BroadcastInputs : BroadcastCall(m)

Spec == Init /\ [][Next]_vars

---------------------------------------------------------------------------
(* SpecQueue: the outbound queue over time *)

QueueInputs ==
  {[type |-> "foo", from |-> Self, to |-> "B"],
   [type |-> "part", from |-> Self, to |-> "B"],
   [type |-> "request-peer", from |-> Self, to |-> "B", ttl |-> TTL,
    forwardBy |-> <<>>]}

QueueTables ==
  {c \in Tables : /\ c["B"] \in {"none", "connecting"}
                  /\ c["C"] = "none"
                  /\ c["signal"] \in {"connecting", "open"}}

InitQueue == NoMedia /\ \E c \in QueueTables : PeerWith(c)

QueueTick == \E idle \in SUBSET {"B"}, closeTo \in {"closing", "closed"} :
               Tick(idle, closeTo)

NextQueue ==
  \/ \E m \in QueueInputs, o \in Opts : SendCall(m, o)
  \/ QueueTick
  \/ Advance
  \/ \E r \in Remotes : ChannelOpen(r)
  \/ \E r \in Remotes, st \in ReadyStates : ChannelDown(r, st)
  \/ \E st \in ReadyStates : SignalEvent(st)

SpecQueue == InitQueue /\ [][NextQueue]_vars

\* the interval timer keeps firing and the clock keeps running: a tick that
\* finds no idle connection to close is taken whenever it would do something
SpecQueueFair ==
  SpecQueue /\ WF_vars(Tick({}, "closed")) /\ WF_vars(Advance)

---------------------------------------------------------------------------
(* SpecRequeue: messages that wait for a route, by destination and type: *)
(* messages for a peer, for the rendezvous and for the source, and       *)
(* requestPeer('B') and requestPeer('signal')                            *)

RequeueInputs ==
  {[type |-> "foo", from |-> Self, to |-> "B"],
   [type |-> "foo", from |-> Self, to |-> "signal"],
   [type |-> "foo", from |-> Self, to |-> "source"],
   [type |-> "request-peer", from |-> Self, to |-> "B", ttl |-> TTL,
    forwardBy |-> <<>>],
   [type |-> "request-peer", from |-> Self, to |-> "signal", ttl |-> TTL,
    forwardBy |-> <<>>]}

NextRequeue ==
  \/ \E m \in RequeueInputs, o \in Opts : SendCall(m, o)
  \/ QueueTick
  \/ Advance
  \/ \E r \in Remotes : ChannelOpen(r)
  \/ \E r \in Remotes, st \in ReadyStates : ChannelDown(r, st)
  \/ \E st \in ReadyStates : SignalEvent(st)

SpecRequeue == InitQueue /\ [][NextRequeue]_vars

---------------------------------------------------------------------------
(* SpecShake: the session handshake *)

InitShake ==
  NoMedia /\ PeerWith([k \in Keys |-> IF k = "signal" THEN "open" ELSE "none"])

NextShake ==
  \/ \E m \in IceInputs : OnIceCandidate(m)
  \/ \E m \in OfferInputs : OnOffer(m)
  \/ \E m \in AnswerInputs : OnAnswer(m)
  \/ \E m \in RequestPeerInputs : OnRequestPeer(m)
  \/ \E i \in 1..MaxPending : SdpReady(i)
  \/ \E r \in Remotes : ChannelOpen(r)
  \/ \E r \in Remotes, st \in ReadyStates : ChannelDown(r, st)
  \/ \E st \in ReadyStates : SignalEvent(st)
  \/ \E idle \in SUBSET Remotes, closeTo \in {"closing", "closed"} :
        Tick(idle, closeTo)

SpecShake == InitShake /\ [][NextShake]_vars

---------------------------------------------------------------------------
(* Media (extensions/media.js).  A part is a record with partNumber and    *)
(* status and, once they were assigned, chunks, numberOfChunks and buffer. *)
(* The JavaScript array part.chunks is [len, at]: its length and the       *)
(* chunks at the indices that were assigned (the other indices are holes). *)
(* An append in the promise chain is [buffer] for the head and             *)
(* [buffer, partNumber] for a part.                                        *)

NumParts == 2                   \* meta.clusters.length
HeadData == <<9>>               \* the initialization segment
PartData == [c \in 1..MaxChunks |-> c]   \* the bytes of a part, one per chunk
HoleByte == 0                   \* an unassigned chunk in a Uint8Array

Gen == Len(chain)               \* the MediaSource promiseBuffer is chained on

Max(a, b) == IF a > b THEN a ELSE b

\* flatten(part.chunks): ramda reads the indices 0..length-1, a hole gives
\* undefined, which new Uint8Array turns into 0
RECURSIVE FlattenFrom(_, _)
FlattenFrom(chunks, idx) ==
  IF idx >= chunks.len THEN <<>>
  ELSE (IF idx \in DOMAIN chunks.at THEN chunks.at[idx] ELSE <<HoleByte>>)
       \o FlattenFrom(chunks, idx + 1)

Flatten(chunks) == FlattenFrom(chunks, 0)

\* part.chunks[chunkNumber] = buffer
AssignChunk(chunks, chunkNumber, buffer) ==
  [len |-> Max(chunks.len, chunkNumber + 1),
   at  |-> (chunkNumber :> buffer) @@ chunks.at]

ChunksOf(part) ==
  IF "chunks" \in DOMAIN part THEN part.chunks ELSE [len |-> 0, at |-> <<>>]

\* the part after Media#append stored its data (status is pending)
Stored(part, number, buffer) ==
  IF Len(number) > 1
  THEN LET chunks == AssignChunk(ChunksOf(part), number[2], buffer)
           p1 == [chunks |-> chunks, numberOfChunks |-> number[3]] @@ part
       IN IF chunks.len = number[3]
          THEN [buffer |-> Flatten(chunks), status |-> "available"] @@ p1
          ELSE p1
  ELSE [buffer |-> buffer, status |-> "available"] @@ part

\* a promise chain hands its next append to the source buffer as soon as the
\* source is open and the previous append has ended
Drain(M, g) ==
  IF M.opened[g] /\ M.inflight[g] = <<>> /\ M.chain[g] # <<>>
  THEN [M EXCEPT !.inflight[g] = <<Head(M.chain[g])>>,
                 !.submitted[g] = Append(@, Head(M.chain[g])),
                 !.chain[g] = Tail(@)]
  ELSE M

\* promiseBuffer = promiseBuffer.then(appendBuffer(...))
Chain(M, g, item) == Drain([M EXCEPT !.chain[g] = Append(@, item)], g)

MediaNow == [parts |-> parts, opened |-> opened, chain |-> chain,
             inflight |-> inflight, submitted |-> submitted,
             complete |-> complete, eos |-> eos]

MediaCommit(M, l) ==
  \E R \in {M} :
  /\ parts' = R.parts
  /\ opened' = R.opened
  /\ chain' = R.chain
  /\ inflight' = R.inflight
  /\ submitted' = R.submitted
  /\ complete' = R.complete
  /\ eos' = R.eos
  /\ last' = l
  /\ out' = <<>>
  /\ UNCHANGED <<conn, weight, icecandidates, queue, now, pendingSdp, cbCount,
                 nextMid>>
  /\ UNCHANGED <<gossipVars, remotes>>

\* Media#setMetadata, with initSource creating a new MediaSource
SetMetadata ==
  /\ Len(chain) < MaxMeta
  /\ MediaCommit(
       [MediaNow EXCEPT
          !.parts = [i \in 0..(NumParts - 1) |->
                       [partNumber |-> i, status |-> "needed"]],
          !.opened = Append(@, FALSE),
          !.chain = Append(@, <<>>),
          !.inflight = Append(@, <<>>),
          !.submitted = Append(@, <<>>)],
       [op |-> "setMetadata"])

\* the sourceopen event of MediaSource g resolves the promise of initSource
SourceOpen(g) ==
  /\ g \in 1..Len(opened)
  /\ ~opened[g]
  /\ MediaCommit(Drain([MediaNow EXCEPT !.opened[g] = TRUE], g),
                 [op |-> "sourceopen"])

\* the part is requested from a peer or from the source: it is expected
MarkPending(p) ==
  /\ p \in DOMAIN parts
  /\ parts[p].status = "needed"
  /\ MediaCommit([MediaNow EXCEPT !.parts[p].status = "pending"],
                 [op |-> "request"])

Heads(g) ==
  Len(SelectSeq(submitted[g] \o chain[g],
                LAMBDA it : "partNumber" \notin DOMAIN it))

\* Media#appendHead
AppendHead(head) ==
  /\ Gen > 0
  /\ Heads(Gen) < MaxHeads
  /\ MediaCommit(Chain(MediaNow, Gen, [buffer |-> head]),
                 [op |-> "appendHead"])

\* append that takes a part in any status
Expected_Always(part) == TRUE

\* the part is one the media is waiting for
Expected(part) == part.status = "pending"

\* Media#append: number is <<p>> or <<p, c, n>>; it throws when the part does
\* not exist (a TypeError) or is not pending
Append_(number, buffer) ==
  LET partNumber == number[1]
      part == parts[partNumber]
  IN IF partNumber \notin DOMAIN parts \/ ~Expected(part)
     THEN MediaCommit(MediaNow, [op |-> "append", err |-> TRUE])
     ELSE LET stored == Stored(part, number, buffer)
              M1 == [MediaNow EXCEPT !.parts[partNumber] = stored]
              M2 == IF stored.status = "available"
                    THEN Chain(M1, Gen, [buffer |-> stored.buffer,
                                         partNumber |-> partNumber])
                    ELSE M1
          IN MediaCommit(M2, [op |-> "append", err |-> FALSE])

\* Media#isComplete followed by mediaSource.endOfStream()
EndOfStreamIfComplete(M) ==
  LET c == IF ~M.complete
           THEN \A i \in DOMAIN M.parts : M.parts[i].status = "added"
           ELSE M.complete
  IN [M EXCEPT !.complete = c, !.eos = IF c THEN @ + 1 ELSE @]

\* the updateend event of the source buffer of MediaSource g: appendBuffer's
\* listener, then the rest of the chain
UpdateEnd(g) ==
  /\ g \in 1..Len(inflight)
  /\ inflight[g] # <<>>
  /\ LET item == inflight[g][1]
         M0 == [MediaNow EXCEPT !.inflight[g] = <<>>]
         M1 == IF "partNumber" \in DOMAIN item
               THEN EndOfStreamIfComplete(
                      [M0 EXCEPT !.parts[item.partNumber].status = "added"])
               ELSE M0
     IN MediaCommit(Drain(M1, g), [op |-> "updateend"])

\* what a remote peer answers: a part as a whole, or part 0 cut into
\* MaxChunks chunks (getChunkedPart with a chunk size of one byte)
PartInputs ==
  {[number |-> <<p>>, buffer |-> PartData] : p \in 0..(NumParts - 1)}
  \cup {[number |-> <<p, c, MaxChunks>>, buffer |-> <<PartData[c + 1]>>] :
          p \in {0}, c \in 0..(MaxChunks - 1)}

InitMedia ==
  /\ NoMedia
  /\ PeerWith([k \in Keys |-> IF k = "signal" THEN "open" ELSE "none"])

NextMedia ==
  \/ SetMetadata
  \/ \E g \in 1..MaxMeta : SourceOpen(g)
  \/ \E p \in 0..(NumParts - 1) : MarkPending(p)
  \/ AppendHead(HeadData)
  \/ \E i \in PartInputs : Append_(i.number, i.buffer)
  \/ \E g \in 1..MaxMeta : UpdateEnd(g)

SpecMedia == InitMedia /\ [][NextMedia]_vars

---------------------------------------------------------------------------
(* SpecSelect: the choice of the parts to download.  Media#remotes maps a  *)
(* remote id to the array of the part numbers the remote said it has.      *)

MaxHowMany == 3                 \* the largest howMany asked for

Min(a, b) == IF a < b THEN a ELSE b

\* the arrays of part numbers a remote may advertise
Advertisements ==
  {a \in UNION {[1..n -> 0..(NumParts - 1)] : n \in 0..NumParts} :
     \A i \in 1..Len(a) : \A j \in 1..Len(a) : i < j => a[i] < a[j]}

\* shuffleArray: every permutation of the elements may come out
shuffleArray(elements) ==
  {p \in [1..Cardinality(elements) -> elements] :
     \A i \in DOMAIN p : \A j \in DOMAIN p : p[i] = p[j] => i = j}

\* selectPeer that always falls back to the server
selectPeer_Source(rem, partNumber, remoteIds) == "source"

\* selectPeer of nextPartsToDownload, remoteIds being the shuffled keys
selectPeer(rem, partNumber, remoteIds) ==
  LET having == {j \in 1..Len(remoteIds) :
                   contains(partNumber, rem[remoteIds[j]])}
  IN IF having = {} THEN "source"
     ELSE remoteIds[CHOOSE j \in having : \A k \in having : j <= k]

\* this.parts.filter(p => p.status === 'needed').map(p => p.partNumber)
NeededNumbers ==
  LET all == [i \in 1..Cardinality(DOMAIN parts) |-> parts[i - 1]]
      needed == SelectSeq(all, LAMBDA p : p.status = "needed")
  IN [i \in 1..Len(needed) |-> needed[i].partNumber]

\* Media#nextPartsToDownload, one shuffle for each part selected
NextPartsToDownload(howMany) ==
  LET numbers == SubSeq(NeededNumbers, 1, Min(howMany, Len(NeededNumbers)))
  IN \E shuffles \in [1..Len(numbers) -> shuffleArray(DOMAIN remotes)] :
       /\ last' = [op |-> "nextParts", howMany |-> howMany,
                   result |-> [i \in 1..Len(numbers) |->
                                 [id |-> selectPeer(remotes, numbers[i],
                                                    shuffles[i]),
                                  partNumber |-> numbers[i]]]]
       /\ out' = <<>>
       /\ UNCHANGED <<peerVarsButLast, mediaVars, gossipVars>>

\* a remote tells which parts it has
Advertise(r, a) ==
  /\ remotes' = (r :> a) @@ remotes
  /\ last' = [op |-> "info", from |-> r]
  /\ out' = <<>>
  /\ UNCHANGED <<parts, opened, chain, inflight, submitted, complete, eos>>
  /\ UNCHANGED <<peerVarsButLast, gossipVars>>

\* the parts arrive whole
WholeParts == {i \in PartInputs : Len(i.number) = 1}

NextSelect ==
  \/ SetMetadata
  \/ \E g \in 1..MaxMeta : SourceOpen(g)
  \/ \E p \in 0..(NumParts - 1) : MarkPending(p)
  \/ \E i \in WholeParts : Append_(i.number, i.buffer)
  \/ \E g \in 1..MaxMeta : UpdateEnd(g)
  \/ \E r \in Remotes, a \in Advertisements : Advertise(r, a)
  \/ \E howMany \in 0..MaxHowMany : NextPartsToDownload(howMany)

SpecSelect == InitMedia /\ [][NextSelect]_vars

---------------------------------------------------------------------------
(* SpecChunk: a part is cut into chunks for a remote peer *)

MaxChunkSize == 2               \* the largest chunkSize asked for

\* typedArray.subarray(begin, end): end is clamped to the length
subarray(buffer, begin, end) == SubSeq(buffer, begin + 1, Min(end, Len(buffer)))

\* Math.ceil(byteLength / chunkSize) for a positive chunkSize
CeilDiv(a, b) == (a + b - 1) \div b

\* the loop of getChunkedPart
Chunked(buffer, chunkSize) ==
  [i \in 1..CeilDiv(Len(buffer), chunkSize) |->
     subarray(buffer, (i - 1) * chunkSize, i * chunkSize)]

\* Media#getChunkedPart: the chunks, or a TypeError when the part has no
\* buffer (part.byteLength of undefined)
getChunkedPart(chunkSize, partNumber) ==
  IF /\ partNumber \in DOMAIN parts
     /\ contains(parts[partNumber].status, <<"available", "added">>)
  THEN IF "buffer" \in DOMAIN parts[partNumber]
       THEN [chunks |-> Chunked(parts[partNumber].buffer, chunkSize),
             err |-> FALSE]
       ELSE [chunks |-> <<>>, err |-> TRUE]
  ELSE [chunks |-> <<>>, err |-> FALSE]

\* a remote peer asks for a part
GetChunkedPart(chunkSize, partNumber) ==
  \E r \in {getChunkedPart(chunkSize, partNumber)} :
    /\ last' = [op |-> "chunks", chunkSize |-> chunkSize,
                partNumber |-> partNumber, chunks |-> r.chunks,
                err |-> r.err]
    /\ out' = <<>>
    /\ UNCHANGED <<peerVarsButLast, mediaVars, gossipVars>>

NextChunk ==
  \/ SetMetadata
  \/ \E g \in 1..MaxMeta : SourceOpen(g)
  \/ \E p \in 0..(NumParts - 1) : MarkPending(p)
  \/ \E i \in PartInputs : Append_(i.number, i.buffer)
  \/ \E g \in 1..MaxMeta : UpdateEnd(g)
  \/ \E chunkSize \in 1..MaxChunkSize, p \in 0..NumParts :
       GetChunkedPart(chunkSize, p)

SpecChunk == InitMedia /\ [][NextChunk]_vars

---------------------------------------------------------------------------
(* Gossip (extensions/gossip.js): the weight of the connections.  A weight *)
(* is the pair [incoming, outgoing] a connection is created with, or the   *)
(* string onweight assigns, [str].  A NodeDescriptor is [id], with the     *)
(* field bandwidth when it has media.bandwidth.                            *)

\* a JavaScript number: NaN, or the fraction num/den with den > 0
Number(n) == [nan |-> FALSE, num |-> n, den |-> 1]
NaN == [nan |-> TRUE, num |-> 0, den |-> 1]

\* count < x and count > x as JavaScript compares them (false for NaN)
LessThan(count, x) == ~x.nan /\ count * x.den < x.num
GreaterThan(count, x) == ~x.nan /\ count * x.den > x.num

RECURSIVE SumOf(_)
SumOf(array) == IF array = <<>> THEN 0 ELSE Head(array) + SumOf(Tail(array))

\* util.js meanArray: 0/0 is NaN for the empty array
meanArray(array) ==
  IF Len(array) = 0 THEN NaN
  ELSE [nan |-> FALSE, num |-> SumOf(array), den |-> Len(array)]

\* Math.ceil(Math.log(n)) for n in 1..20
CeilLog(n) == IF n <= 1 THEN 0 ELSE IF n = 2 THEN 1 ELSE IF n <= 7 THEN 2 ELSE 3

\* the bandwidths of the descriptors of the view that have one
RECURSIVE ViewBandwidths(_)
ViewBandwidths(v) ==
  IF v = <<>> THEN <<>>
  ELSE (IF "bandwidth" \in DOMAIN Head(v) THEN <<Head(v).bandwidth>> ELSE <<>>)
       \o ViewBandwidths(Tail(v))

\* Gossip#getMaxConnections: meanfanout, or meanfanout * bw / meanbw
getMaxConnections ==
  LET meanfanout == CeilLog(Len(view) + 1)
      bw == meanArray(bandwidths)
      meanbw == meanArray(ViewBandwidths(view))
  IN IF meanbw.nan THEN Number(meanfanout)
     ELSE IF bw.nan THEN NaN
     ELSE [nan |-> FALSE, num |-> meanfanout * bw.num * meanbw.den,
           den |-> bw.den * meanbw.num]

String(v) == [str |-> v]

\* c.weight === v
IsString(w, v) == "str" \in DOMAIN w /\ w.str = v

\* Gossip#getHeavyConnections
getHeavyConnections ==
  Cardinality({r \in Remotes : conn[r] # "none" /\ IsString(weight[r], "heavy")})

WeightReply(data) == [type |-> "gossip:weight", data |-> data, mid |-> 0]

\* the test of onweight before it acknowledges an upgrade
Admits(cx) ==
  IsString(cx, "light") /\ LessThan(getHeavyConnections, getMaxConnections)

\* onweight: the router state, the weight of the connection, the answer and
\* whether it threw (this.connections.get(message.from) is undefined)
OnWeightResult(message) ==
  LET from == message.from
      known == conn[from] # "none"
      cx == weight[from]
      answered(d) == RespondTo(Here, message, WeightReply(d))
      threw == [S |-> Here, w |-> cx, reply |-> "none", err |-> TRUE]
  IN CASE message.data = "request-heavy" ->
            IF ~known THEN threw
            ELSE IF Admits(cx)
            THEN [S |-> answered("ack-heavy"), w |-> String("heavy"),
                  reply |-> "ack-heavy", err |-> FALSE]
            ELSE [S |-> answered("noack-heavy"), w |-> cx,
                  reply |-> "noack-heavy", err |-> FALSE]
       [] message.data = "request-light" ->
            [S |-> answered("ack-light"),
             w |-> IF known THEN String("light") ELSE cx,
             reply |-> "ack-light", err |-> ~known]
       [] message.data = "ack-heavy" ->
            IF known THEN [S |-> Here, w |-> String("heavy"),
                           reply |-> "none", err |-> FALSE]
            ELSE threw
       [] message.data = "ack-light" ->
            IF known THEN [S |-> Here, w |-> String("light"),
                           reply |-> "none", err |-> FALSE]
            ELSE threw
       [] OTHER -> [S |-> Here, w |-> cx, reply |-> "none", err |-> FALSE]

\* onweight
OnWeight(message) ==
  \E r \in {OnWeightResult(message)} :
    /\ Len(r.S.q) <= MaxQueue
    /\ conn' = r.S.conn
    /\ queue' = r.S.q
    /\ out' = r.S.out
    /\ weight' = [weight EXCEPT ![message.from] = r.w]
    /\ last' = [op |-> "weight", from |-> message.from, data |-> message.data,
                reply |-> r.reply, err |-> r.err, arg |-> message,
                handed |-> IF r.reply = "none" THEN <<>>
                           ELSE Reply(message, WeightReply(r.reply)),
                original |-> IF r.reply = "none" THEN message
                             ELSE OriginalAfterReply(Here, message,
                                                     WeightReply(r.reply))]
    /\ UNCHANGED <<icecandidates, now, pendingSdp, cbCount, nextMid>>
    /\ UNCHANGED <<mediaVars, gossipVars>>

\* the handler of gossip:view-update
ViewUpdate(v) ==
  /\ view' = v
  /\ out' = <<>>
  /\ last' = [op |-> "view-update"]
  /\ UNCHANGED <<peerVarsButLast, bandwidths>>
  /\ UNCHANGED mediaVars

\* onbandwidth (the descriptor update goes to the worker)
OnBandwidth(b) ==
  /\ Len(bandwidths) < MaxSamples
  /\ bandwidths' = Append(bandwidths, b)
  /\ out' = <<>>
  /\ last' = [op |-> "bandwidth"]
  /\ UNCHANGED <<peerVarsButLast, view>>
  /\ UNCHANGED mediaVars

WeightData ==
  {"request-heavy", "ack-heavy", "noack-heavy", "request-light", "ack-light",
   "noack-light"}

\* the gossip:weight messages a remote sends: the requests of processHeavy
\* (no ttl, no forwardBy) and messages that came through relays
WeightInputs ==
  {[type |-> "gossip:weight", from |-> r, to |-> Self, data |-> d,
    mid |-> 0] : r \in Remotes, d \in WeightData}
  \cup
  {[type |-> "gossip:weight", from |-> "B", to |-> Self, data |-> d,
    mid |-> 0, ttl |-> 1, forwardBy |-> <<"C", "X">>] : d \in WeightData}

Views ==
  {<<>>,
   <<[id |-> "B"]>>,
   <<[id |-> "B", bandwidth |-> 2]>>,
   <<[id |-> "B", bandwidth |-> 2], [id |-> "C"]>>}

Samples == {2, 3}

GossipTables ==
  {c \in Tables : /\ c["signal"] = "open"
                  /\ \A r \in Remotes : c[r] \in {"none", "open"}}

InitGossip ==
  /\ NoMedia
  /\ \E c \in GossipTables : PeerWith(c)

NextGossip ==
  \/ \E m \in WeightInputs : OnWeight(m)
  \/ \E v \in Views : ViewUpdate(v)
  \/ \E b \in Samples : OnBandwidth(b)

SpecGossip == InitGossip /\ [][NextGossip]_vars

---------------------------------------------------------------------------
(* SpecHeavy: heavy messages for an open neighbour and its answers to the *)
(* request for an upgrade                                                  *)

HeavyInputs ==
  {[type |-> "part", from |-> Self, to |-> "B"],
   [type |-> "foo", from |-> Self, to |-> "B"]}

\* what B answers to request-heavy
GrantInputs ==
  {[type |-> "gossip:weight", from |-> "B", to |-> Self, data |-> d,
    mid |-> 0] : d \in {"ack-heavy", "noack-heavy"}}

NextHeavy ==
  \/ \E m \in HeavyInputs, o \in Opts : SendCall(m, o)
  \/ \E m \in GrantInputs : OnWeight(m)
  \/ Tick({}, "closed")
  \/ Advance

\* the rendezvous is open and so are some of the connections; the interval
\* timer keeps firing and the clock keeps running
SpecHeavy ==
  InitGossip /\ [][NextHeavy]_vars /\ WF_vars(Tick({}, "closed"))
             /\ WF_vars(Advance)

---------------------------------------------------------------------------
(* SpecMatch: containsMatch of util.js.  A JavaScript value is [num] for a *)
(* number, [str] for a string and [obj] for an object or an array: the     *)
(* function from its own property names to their values (the property      *)
(* names of an array are its indices "0", "1", ...).                       *)

MaxArray == 2                   \* the longest array searched

Num(n) == [num |-> n]

IndexKey == <<"0", "1", "2", "3">>

\* the object literal with the properties f
Obj(f) == [obj |-> f]

\* the array literal with the elements of s
Arr(s) ==
  [obj |-> [k \in {IndexKey[i] : i \in 1..Len(s)} |->
              s[CHOOSE i \in 1..Len(s) : IndexKey[i] = k]]]

typeof(x) ==
  IF "num" \in DOMAIN x THEN "number"
  ELSE IF "str" \in DOMAIN x THEN "string" ELSE "object"

\* object.hasOwnProperty(prop); a number has no property of its own
hasOwnProperty(object, prop) ==
  "obj" \in DOMAIN object /\ prop \in DOMAIN object.obj

\* template[prop] === object[prop] for two values of the same primitive type
StrictEquals(x, y) ==
  IF "num" \in DOMAIN x THEN x.num = y.num ELSE x.str = y.str

\* recursiveMatch that does not look into structured values
recursiveMatch_Shallow(template, object) ==
  \A prop \in DOMAIN template.obj :
    /\ hasOwnProperty(object, prop)
    /\ typeof(object.obj[prop]) = typeof(template.obj[prop])
    /\ typeof(template.obj[prop]) # "object"
         => StrictEquals(template.obj[prop], object.obj[prop])

\* recursiveMatch of containsMatch: no property of the template makes it
\* return false
RECURSIVE recursiveMatch(_, _)
recursiveMatch(template, object) ==
  \A prop \in DOMAIN template.obj :
    ~(\/ ~hasOwnProperty(object, prop)
      \/ typeof(object.obj[prop]) # typeof(template.obj[prop])
      \/ /\ typeof(template.obj[prop]) = "object"
         /\ ~recursiveMatch(template.obj[prop], object.obj[prop])
      \/ /\ typeof(template.obj[prop]) # "object"
         /\ ~StrictEquals(template.obj[prop], object.obj[prop]))

\* containsMatch
containsMatch(template, array) ==
  \E i \in 1..Len(array) : recursiveMatch(template, array[i])

\* the templates and the elements of the tests, and some more
Templates ==
  {Obj(<<>>),
   Obj([a |-> Num(1)]),
   Obj([a |-> String("1")]),
   Obj([a |-> Num(1), b |-> Num(2)]),
   Arr(<<Num(1)>>),
   Arr(<<Num(1), Num(2)>>),
   Arr(<<Num(1), Num(2), Num(3)>>),
   Obj([a |-> Arr(<<Num(1), Num(2), Num(3)>>)]),
   Obj([a |-> Obj([a |-> Num(1)])])}

Elements ==
  {Obj([a |-> Num(1)]),
   Obj([a |-> Num(2)]),
   Obj([b |-> Num(1)]),
   Obj([a |-> String("1")]),
   Obj([a |-> Num(1), b |-> Num(2), c |-> Num(3)]),
   Arr(<<Num(1)>>),
   Arr(<<Num(2), Num(3)>>),
   Arr(<<String("a"), Num(1)>>),
   Arr(<<Num(1), Num(2)>>),
   Arr(<<Num(1), Num(2), Num(4)>>),
   Arr(<<Num(1), Num(2), Num(3), Num(4)>>),
   Obj([a |-> Obj([a |-> Num(1)]), b |-> Num(2)]),
   Obj([a |-> Arr(<<Num(1), Num(2), Num(4)>>)]),
   Obj([a |-> Arr(<<Num(1), Num(2), Num(3)>>)]),
   Obj([a |-> Arr(<<Num(1), Num(2), Num(3), Num(4)>>)]),
   Obj([a |-> Arr(<<Num(1), Num(2)>>)])}

Arrays == UNION {[1..n -> Elements] : n \in 0..MaxArray}

\* a call of containsMatch
ContainsMatchCall(template, array) ==
  /\ last' = [op |-> "containsMatch", template |-> template,
              array |-> array, result |-> containsMatch(template, array)]
  /\ out' = <<>>
  /\ UNCHANGED <<peerVarsButLast, mediaVars, gossipVars>>

NextMatch == \E template \in Templates, array \in Arrays :
               ContainsMatchCall(template, array)

SpecMatch == InitMedia /\ [][NextMatch]_vars

---------------------------------------------------------------------------
(* SpecSort: shallowSort of util.js with the boolean compare function of   *)
(* its documentation and tests.  Array#sort turns the result of the        *)
(* compare function into a number; a function that never gives a negative *)
(* number is not a consistent comparator and the order of the result is    *)
(* left to the engine.  Two engines are modelled: an insertion sort that   *)
(* moves an element left while comparefn(previous, element) > 0, and a     *)
(* binary insertion sort that looks for comparefn(pivot, element) < 0.     *)

MaxSort == 4                    \* the longest array sorted
MaxValue == 3                   \* the largest number in an array

\* the sortFunction of the tests, as the number Array#sort sees
sortFunction(a, b) == IF a > b THEN 1 ELSE 0

\* insertion sort: element goes left of every predecessor that compares > 0
RECURSIVE InsertLinear(_, _)
InsertLinear(sorted, element) ==
  IF sorted = <<>> THEN <<element>>
  ELSE IF sortFunction(sorted[Len(sorted)], element) > 0
       THEN Append(InsertLinear(SubSeq(sorted, 1, Len(sorted) - 1), element),
                   sorted[Len(sorted)])
       ELSE Append(sorted, element)

RECURSIVE LinearSort(_, _)
LinearSort(sorted, rest) ==
  IF rest = <<>> THEN sorted
  ELSE LinearSort(InsertLinear(sorted, Head(rest)), Tail(rest))

\* binary insertion sort: the place of the pivot in sorted[left+1..right]
RECURSIVE BinaryPlace(_, _, _, _)
BinaryPlace(sorted, pivot, left, right) ==
  IF left >= right THEN left
  ELSE LET mid == left + ((right - left) \div 2)
       IN IF sortFunction(pivot, sorted[mid + 1]) < 0
          THEN BinaryPlace(sorted, pivot, left, mid)
          ELSE BinaryPlace(sorted, pivot, mid + 1, right)

RECURSIVE BinarySort(_, _)
BinarySort(sorted, rest) ==
  IF rest = <<>> THEN sorted
  ELSE LET at == BinaryPlace(sorted, Head(rest), 0, Len(sorted))
       IN BinarySort(SubSeq(sorted, 1, at) \o <<Head(rest)>>
                       \o SubSeq(sorted, at + 1, Len(sorted)),
                     Tail(rest))

\* Array#sort: what the engines give
Sorted(array) == {LinearSort(<<>>, array), BinarySort(<<>>, array)}

\* shallowSort(sortFunction, array): slice() makes a new array, sort() orders
\* it in place and returns it; the argument is not written
ShallowSortCall(array) ==
  \E result \in Sorted(array) :
    /\ last' = [op |-> "shallowSort", given |-> array, array |-> array,
                result |-> result, sameObject |-> FALSE]
    /\ out' = <<>>
    /\ UNCHANGED <<peerVarsButLast, mediaVars, gossipVars>>

SortInputs == UNION {[1..n -> 1..MaxValue] : n \in 0..MaxSort}

NextSort == \E array \in SortInputs : ShallowSortCall(array)

SpecSort == InitMedia /\ [][NextSort]_vars

---------------------------------------------------------------------------
(* SpecContains: contains of util.js on arrays of numbers and strings *)

MaxHaystack == 3                \* the longest array searched by contains

Needles == {Num(1), Num(2), String("a"), String("b"), String("1")}

Haystacks == UNION {[1..n -> Needles] : n \in 0..MaxHaystack}

\* a call of contains
ContainsCall(element, array) ==
  /\ last' = [op |-> "contains", element |-> element, array |-> array,
              result |-> contains(element, array)]
  /\ out' = <<>>
  /\ UNCHANGED <<peerVarsButLast, mediaVars, gossipVars>>

NextContains == \E element \in Needles, array \in Haystacks :
                  ContainsCall(element, array)

SpecContains == InitMedia /\ [][NextContains]_vars

---------------------------------------------------------------------------
(* Claims about the router's calls (Spec) *)

OutIndex == 1..Len(out)

\* C1: the message forward hands to send, and every copy of it that leaves
\* on a peer connection, has the ttl of the received message minus exactly
\* one and its forward_by with self.id appended as last element.
C1_ForwardDecrementsAndSigns ==
  last.op = "forward" =>
    /\ last.handed.ttl = last.arg.ttl - 1
    /\ last.handed.forwardBy = Append(last.arg.forwardBy, Self)
    /\ \A i \in OutIndex :
         out[i].on \in Remotes /\ out[i].msg.type = last.arg.type =>
           /\ out[i].msg.ttl = last.arg.ttl - 1
           /\ out[i].msg.forwardBy = Append(last.arg.forwardBy, Self)

C1_Witness ==
  /\ last.op = "forward"
  /\ last.arg.forwardBy = <<"B">>
  /\ last.arg.ttl = 1
  /\ Len(out) = 1

\* C2: forward on a message with ttl 0 transmits nothing, and no message
\* with a negative ttl is ever sent or queued.
C2_ZeroTtlNeverForwarded ==
  /\ (last.op = "forward" /\ last.arg.ttl = 0 => out = <<>>)
  /\ \A i \in OutIndex :
       "ttl" \in DOMAIN out[i].msg => out[i].msg.ttl >= 0
  /\ \A i \in 1..Len(queue) :
       "ttl" \in DOMAIN queue[i].message => queue[i].message.ttl >= 0

\* C3 as stated: every copy broadcast(m) sends goes over an open connection
\* that is not the rendezvous and whose remote is neither m.from nor in
\* m.forward_by.
C3_Original ==
  last.op = "broadcast" =>
    \A i \in OutIndex :
      /\ out[i].on # "signal"
      /\ conn[out[i].on] = "open"
      /\ out[i].on # last.arg.from
      /\ ~contains(out[i].on, last.arg.forwardBy)

\* C3 amended: every copy broadcast(m) sends to a peer goes over an open
\* connection whose remote is neither m.from nor in m.forward_by; the only
\* other copy is the one on the rendezvous, sent when no neighbour is
\* eligible and m.from is self.id.  A node that forwards a request-peer with
\* forward_by = [B] while its open connections are those to B and C sends
\* exactly one copy, to C, carrying forward_by = [B, self].
C3_BroadcastExcludesRelays ==
  /\ last.op = "broadcast" =>
       \A i \in OutIndex :
         IF out[i].on = "signal"
         THEN Len(out) = 1 /\ last.arg.from = Self
         ELSE /\ conn[out[i].on] = "open"
              /\ out[i].on # last.arg.from
              /\ ~contains(out[i].on, last.arg.forwardBy)
  /\ ( /\ last.op = "forward"
       /\ last.arg.type = "request-peer"
       /\ last.arg.from = "X"
       /\ last.arg.forwardBy = <<"B">>
       /\ conn["B"] = "open" /\ conn["C"] = "open" )
     => out = <<[on |-> "C",
                 msg |-> [last.arg EXCEPT !.ttl = @ - 1,
                                          !.forwardBy = <<"B", Self>>]]>>

C3_Witness ==
  /\ last.op = "forward"
  /\ last.arg.type = "request-peer"
  /\ last.arg.from = "X"
  /\ last.arg.forwardBy = <<"B">>
  /\ last.arg.ttl = 1
  /\ conn["B"] = "open" /\ conn["C"] = "open"
  /\ Len(out) = 1

\* C4: broadcast(m) returns success exactly when at least one copy of m
\* left the node during the call.
C4_SuccessIffCopyLeft ==
  last.op = "broadcast" => (last.ok <=> Len(out) >= 1)


---------------------------------------------------------------------------
(* Claims about the media (SpecMedia) *)

IsPartItem(item) == "partNumber" \in DOMAIN item

\* C8: a part that receives chunks "p:c:n" becomes available only once all
\* the n chunks 0..n-1 were received, and its buffer is then the chunks
\* concatenated in index order, whatever the order they arrived in.
C8_ChunksReassembledInOrder ==
  \A p \in DOMAIN parts :
    ("chunks" \in DOMAIN parts[p] /\ parts[p].status \in {"available", "added"})
      => /\ DOMAIN parts[p].chunks.at = 0..(parts[p].numberOfChunks - 1)
         /\ parts[p].buffer = PartData

StatusRank(status) ==
  CASE status = "needed" -> 0
    [] status = "pending" -> 1
    [] status = "available" -> 2
    [] status = "added" -> 3

\* C9: across setMetadata, requests, appends and the ends of appends, the
\* status of every part only moves forward along needed, pending, available,
\* added: no step takes it back to an earlier status.
C9_StatusNeverRegresses ==
  [][\A p \in DOMAIN parts :
       p \in DOMAIN parts'
         => StatusRank(parts'[p].status) >= StatusRank(parts[p].status)]_vars

\* C10: whatever the order of the calls of appendHead and append after
\* setMetadata, the playback buffer is handed the head before the buffer of
\* any part: no part is submitted to a source buffer before the head is.
C10_HeadSubmittedFirst ==
  \A g \in 1..Len(submitted) :
    \A i, j \in 1..Len(submitted[g]) :
      (i < j /\ IsPartItem(submitted[g][i])) => IsPartItem(submitted[g][j])


---------------------------------------------------------------------------
(* Claims about the handshake (SpecShake) *)

\* C7: in every reachable state, whatever the order in which icecandidate,
\* offer and request-peer messages of a remote r arrive, r does not have both
\* an entry in the connection table and an entry in the candidate buffer.
C7_ConnectionOrBufferNotBoth ==
  \A r \in Remotes : ~(conn[r] # "none" /\ icecandidates[r] # {})


---------------------------------------------------------------------------
(* Claims about the outbound queue (SpecQueueFair) *)

QueuedFor(mid, r) ==
  \E i \in 1..Len(queue) : queue[i].message.mid = mid /\ queue[i].message.to = r

SentTo(mid, r) ==
  \E k \in 1..Len(out) : out[k].on = r /\ out[k].msg.mid = mid

ExpiredAtTick(mid) == last.op = "tick" /\ mid \in last.expired

\* C5 (every queued message): a tick re-processes every queued message that
\* has not timed out
C5_RetriedAtEveryTick ==
  \A i \in 1..Len(queue) :
    (last'.op = "tick" /\ ~Elapsed(queue[i]))
      => queue[i].message.mid \in last'.processed

C6_TimeoutFiresOnceAndDrops ==
  /\ [](\A mid \in 1..MaxSends :
          /\ cbCount[mid] <= 1
          /\ cbCount[mid] = 1
               => /\ \A r \in Remotes : ~QueuedFor(mid, r)
                  /\ \A k \in 1..Len(out) : out[k].msg.mid # mid)
  /\ [][\A i \in 1..Len(queue) :
          LET elt == queue[i]
              mid == elt.message.mid
          IN (last'.op = "tick" /\ Elapsed(elt) /\ mid > 0)
               => /\ mid \in last'.expired
                  /\ \A j \in 1..Len(queue') : queue'[j].message.mid # mid
                  /\ \A k \in 1..Len(out') : out'[k].msg.mid # mid
                  /\ "callback" \in DOMAIN elt
                       => cbCount[mid] = 0 /\ cbCount'[mid] = 1
       ]_vars
  /\ \A mid \in 1..MaxSends :
       (\E i \in 1..Len(queue) :
          queue[i].message.mid = mid /\ "timeout" \in DOMAIN queue[i])
         ~> \/ ExpiredAtTick(mid)
            \/ \E r \in Remotes : conn[r] = "open"
            \/ conn["signal"] = "open"

\* C6 witness: a tick has just found the timeout of an entry with a callback
\* elapsed, with no open connection and the rendezvous unavailable
C6_Witness ==
  /\ last.op = "tick"
  /\ \E mid \in 1..MaxSends : mid \in last.expired /\ cbCount[mid] = 1
  /\ \A k \in Keys : conn[k] # "open"


---------------------------------------------------------------------------
(* Claims about the weight protocol (SpecGossip) *)

\* C11: in every reachable state, under any sequence of gossip:weight
\* messages and view updates, the number of heavy connections of the node
\* does not exceed max_connections().
C11_HeavyWithinMax ==
  ~GreaterThan(getHeavyConnections, getMaxConnections)

\* C12: on a request-heavy from r the node answers ack-heavy and makes the
\* incoming weight of the connection to r heavy exactly when that incoming
\* weight is light and the heavy count is below max_connections; otherwise
\* it answers noack-heavy and the incoming weight is unchanged.
C12_RequestHeavyAdmission ==
  [][(/\ last'.op = "weight"
      /\ last'.data = "request-heavy"
      /\ conn[last'.from] # "none")
       => LET r == last'.from IN
          IF /\ Incoming(weight[r]) = "light"
             /\ LessThan(getHeavyConnections, getMaxConnections)
          THEN /\ last'.reply = "ack-heavy"
               /\ Incoming(weight'[r]) = "heavy"
          ELSE /\ last'.reply = "noack-heavy"
               /\ Incoming(weight'[r]) = Incoming(weight[r])]_vars


---------------------------------------------------------------------------
(* Claims about the heavy-admission path (SpecQueue) *)

\* the step has run processMessage on the queued message m: a tick that
\* re-processed it, or the opening of the channel to its destination
HeavyProcessed(m) ==
  \/ last'.op = "tick" /\ m.mid \in last'.processed
  \/ last'.op = "connected" /\ last'.from = m.to

\* the heavy messages the step has processed: the queued ones and the one
\* handed to send
HeavyInStep ==
  {queue[i].message : i \in {j \in 1..Len(queue) :
                               HeavyProcessed(queue[j].message)}}
  \cup (IF last'.op = "send" /\ ~last'.err THEN {last'.arg} ELSE {})

\* C13: a heavy message to a peer is transmitted directly only when the
\* connection to that peer is open and its incoming weight is heavy; in every
\* other case, an open but light connection included, the message is
\* re-queued and a gossip:weight request-heavy toward the peer is emitted.
C13_HeavyDirectOrRequeued ==
  [][/\ \A k \in 1..Len(out') :
          isHeavy(out'[k].msg)
            => /\ conn'[out'[k].on] = "open"
               /\ Incoming(weight[out'[k].on]) = "heavy"
     /\ \A m \in HeavyInStep :
          (/\ isHeavy(m)
           /\ m.to \in Remotes
           /\ ~(conn'[m.to] = "open" /\ Incoming(weight[m.to]) = "heavy"))
            => /\ \E j \in 1..Len(queue') : queue'[j].message = m
               /\ conn'[m.to] = "open"
                    => \E k \in 1..Len(out') :
                         /\ out'[k].on = m.to
                         /\ out'[k].msg.type = "gossip:weight"
                         /\ out'[k].msg.data = "request-heavy"]_vars


---------------------------------------------------------------------------
(* Claims about Peer#send (Spec) *)

\* the step is a call of send
IsSendStep == last'.op = "send" /\ nextMid' = nextMid + 1

\* the message lacks a field send requires
LacksField(m) ==
  \/ ~({"type", "from", "to"} \subseteq DOMAIN m)
  \/ /\ m.type \in {"request-peer", "answer", "icecandidate", "offer"}
     /\ ~({"ttl", "forwardBy"} \subseteq DOMAIN m)

\* C14: a message of a type that is not heavy whose `to' is a neighbour with
\* an open connection is sent exactly once on that connection and on no
\* other, and is not queued, even when it carries a route hint or is of a
\* forwardable type.
C14_DirectToOpenNeighbour ==
  [][(/\ IsSendStep
      /\ ~LacksField(last'.arg)
      /\ ~isHeavy(last'.arg)
      /\ last'.arg.to \in Remotes
      /\ conn[last'.arg.to] = "open")
       => /\ out' = <<[on |-> last'.arg.to, msg |-> last'.arg]>>
          /\ queue' = queue]_vars

\* C14 witness: a message with a route hint through C, an open neighbour, went
\* to B, its destination and an open neighbour too, and only there
C14_Witness ==
  /\ last.op = "send"
  /\ "route" \in DOMAIN last.arg
  /\ last.arg.to = "B"
  /\ last.arg.route = <<"C">>
  /\ conn["B"] = "open"
  /\ conn["C"] = "open"
  /\ out = <<[on |-> "B", msg |-> last.arg]>>

C17_InvalidMessageRejected ==
  [][(IsSendStep /\ LacksField(last'.arg))
       => /\ last'.err
          /\ out' = <<>>
          /\ last'.local = <<>>
          /\ queue' = queue
          /\ conn' = conn]_vars

\* C17 witness: an offer without ttl was refused while messages were waiting
\* in the queue and the destination was an open neighbour
C17_Witness ==
  /\ last.op = "send"
  /\ last.err
  /\ "type" \in DOMAIN last.arg
  /\ last.arg.type = "offer"
  /\ "ttl" \notin DOMAIN last.arg
  /\ conn["B"] = "open"
  /\ queue # <<>>
  /\ out = <<>>

\* C18: send of a message whose `to' is the peer's own id dispatches it to
\* the local handlers and does nothing else: nothing is transmitted, nothing
\* queued, the connection table is unchanged.
C18_SelfAddressedDispatched ==
  [][(/\ IsSendStep
      /\ ~LacksField(last'.arg)
      /\ last'.arg.to = Self)
       => /\ last'.local = <<last'.arg>>
          /\ ~last'.err
          /\ out' = <<>>
          /\ queue' = queue
          /\ UNCHANGED <<conn, weight, icecandidates, pendingSdp, cbCount,
                         now>>]_vars

\* C18 witness: a message to the peer itself was dispatched locally while
\* another message was waiting in the queue
C18_Witness ==
  /\ last.op = "send"
  /\ "to" \in DOMAIN last.arg
  /\ last.arg.to = Self
  /\ last.local = <<last.arg>>
  /\ queue # <<>>
  /\ out = <<>>


---------------------------------------------------------------------------
(* Claims about Peer#respondTo (SpecGossip) *)

\* C16: the reply respondTo hands to send has from = self.id, to = the
\* original's from, ttl = self.ttl whatever the original's ttl, an empty
\* forward_by, route = the original's forward_by in the same order, and the
\* type and data of the partial message; it is what leaves on the open
\* connection to the original's sender.
C16_ReplyEnvelope ==
  (last.op = "weight" /\ last.reply # "none")
    => LET a == last.handed
           m == last.arg
       IN /\ a.from = Self
          /\ a.to = m.from
          /\ a.ttl = TTL
          /\ a.forwardBy = <<>>
          /\ "forwardBy" \in DOMAIN m => a.route = m.forwardBy
          /\ a.type = "gossip:weight"
          /\ a.data = last.reply
          /\ conn[m.from] = "open" => out = <<[on |-> m.from, msg |-> a]>>

\* C16 witness: a request that came through the relays C and X with ttl 1
\* was answered on the open connection to its sender
C16_Witness ==
  /\ last.op = "weight"
  /\ last.reply = "ack-light"
  /\ "ttl" \in DOMAIN last.arg
  /\ last.arg.ttl = 1
  /\ last.arg.forwardBy = <<"C", "X">>
  /\ last.handed.route = <<"C", "X">>
  /\ last.handed.ttl = TTL
  /\ conn[last.arg.from] = "open"
  /\ out = <<[on |-> last.arg.from, msg |-> last.handed]>>


---------------------------------------------------------------------------
(* Claims about Media#append (SpecMedia) *)

\* C19: append on a part whose status is not pending fails and leaves the
\* status, the chunks and the buffer of that part, and the append pipeline,
\* unchanged.
C19_UnexpectedPartRejected ==
  [][\A i \in PartInputs :
       (/\ i.number[1] \in DOMAIN parts
        /\ parts[i.number[1]].status # "pending"
        /\ Append_(i.number, i.buffer))
         => /\ last'.op = "append"
            /\ last'.err
            /\ parts' = parts
            /\ UNCHANGED <<chain, inflight, submitted, complete, eos>>]_vars

\* C19 witness: an append was refused while no part was pending, one part
\* being already in the source buffer and its successor still needed
C19_Witness ==
  /\ last.op = "append"
  /\ last.err
  /\ DOMAIN parts = 0..(NumParts - 1)
  /\ parts[0].status = "added"
  /\ parts[1].status = "needed"

\* every part of the media is in the source buffer after the step
AllAdded == \A i \in DOMAIN parts' : parts'[i].status = "added"

\* C20: end-of-stream is signalled when and only when the completion of an
\* append leaves every part added: never while some part is not added, and
\* once.
C20_EndOfStreamOnceWhenComplete ==
  [][/\ eos' # eos
          => /\ last'.op = "updateend"
             /\ AllAdded
             /\ eos = 0
             /\ eos' = 1
     /\ (last'.op = "updateend" /\ parts' # parts /\ AllAdded /\ eos = 0)
          => eos' = 1]_vars



---------------------------------------------------------------------------
(* Claims about the choice of the parts to download (SpecSelect) *)

NeededSet == {i \in DOMAIN parts : parts[i].status = "needed"}

\* C21: nextPartsToDownload(k) returns, in index order, the first k parts
\* whose status is needed (all of them if there are fewer than k), each with
\* a remote whose advertised parts contain it, and with "source" only when
\* no remote advertises it; the call changes no part and no entry of the
\* remotes' availability.
C21_NextPartsToDownload ==
  /\ [](last.op = "nextParts"
          => LET res == last.result IN
             /\ Len(res) = Min(last.howMany, Cardinality(NeededSet))
             /\ \A j \in 1..Len(res) :
                  /\ res[j].partNumber \in NeededSet
                  /\ Cardinality({i \in NeededSet : i < res[j].partNumber})
                       = j - 1
                  /\ IF \E r \in DOMAIN remotes :
                          \E x \in 1..Len(remotes[r]) :
                            remotes[r][x] = res[j].partNumber
                     THEN /\ res[j].id \in DOMAIN remotes
                          /\ \E x \in 1..Len(remotes[res[j].id]) :
                               remotes[res[j].id][x] = res[j].partNumber
                     ELSE res[j].id = "source")
  /\ [][last'.op = "nextParts" => parts' = parts /\ remotes' = remotes]_vars

\* C21 witness: two parts were asked for while part 0 was pending and part 1
\* needed; part 1 came back alone, paired with one of the two remotes that
\* both advertise it
C21_Witness ==
  /\ last.op = "nextParts"
  /\ last.howMany = 2
  /\ DOMAIN parts = 0..(NumParts - 1)
  /\ parts[0].status = "pending"
  /\ parts[1].status = "needed"
  /\ DOMAIN remotes = {"B", "C"}
  /\ remotes["B"] = <<0, 1>>
  /\ remotes["C"] = <<1>>
  /\ last.result = <<[id |-> "C", partNumber |-> 1]>>


---------------------------------------------------------------------------
(* Claims about the chunks of a part (SpecChunk) *)

RECURSIVE Concat(_)
Concat(chunks) ==
  IF chunks = <<>> THEN <<>> ELSE Head(chunks) \o Concat(Tail(chunks))

\* the part a pending copy becomes when the chunks are appended to it in
\* order as p:0:n .. p:n-1:n
RECURSIVE FedBack(_, _, _)
FedBack(part, chunks, c) ==
  IF c >= Len(chunks) THEN part
  ELSE FedBack(Stored(part, <<part.partNumber, c, Len(chunks)>>, chunks[c + 1]),
               chunks, c + 1)

\* C22: for a part whose status is available or added, getChunkedPart returns
\* contiguous chunks of at most chunkSize bytes each whose concatenation in
\* order is the buffer of the part, so that appending them in order to a
\* pending copy rebuilds the same buffer; for any other status and for an
\* unknown part it returns no chunk.
C22_ChunksRebuildBuffer ==
  last.op = "chunks"
    => LET p == last.partNumber IN
       IF p \in DOMAIN parts /\ parts[p].status \in {"available", "added"}
       THEN /\ ~last.err
            /\ \A i \in 1..Len(last.chunks) :
                 Len(last.chunks[i]) <= last.chunkSize
            /\ Concat(last.chunks) = parts[p].buffer
            /\ last.chunks # <<>>
                 => LET copy == FedBack([partNumber |-> p,
                                         status |-> "pending"],
                                        last.chunks, 0)
                    IN /\ copy.status = "available"
                       /\ copy.buffer = parts[p].buffer
       ELSE ~last.err /\ last.chunks = <<>>


---------------------------------------------------------------------------
(* Claims about the rendezvous channel (Spec) *)

\* C23: every message Signal#send transmits on the rendezvous channel carries
\* ttl = 0 on the wire, whatever ttl it had when it was handed to send.
C23_SignalTtlZero ==
  \A k \in 1..Len(out) :
    out[k].on = "signal"
      => "ttl" \in DOMAIN out[k].msg /\ out[k].msg.ttl = 0

\* C23 witness: a request-peer of the peer's own, handed to broadcast with
\* ttl = Peer.ttl, left on the rendezvous
C23_Witness ==
  /\ last.op = "broadcast"
  /\ last.arg.from = Self
  /\ last.arg.ttl = TTL
  /\ Len(out) = 1
  /\ out[1].on = "signal"
  /\ out[1].msg.type = "request-peer"
  /\ out[1].msg.ttl = 0


---------------------------------------------------------------------------
(* Claims about containsMatch (SpecMatch) *)

\* the element has every key of the template with an equal value: the same
\* number, the same string, or a structured value that has every key of the
\* template's one with an equal value
RECURSIVE HasAllOf(_, _)
HasAllOf(element, template) ==
  /\ "obj" \in DOMAIN element
  /\ DOMAIN template.obj \subseteq DOMAIN element.obj
  /\ \A k \in DOMAIN template.obj :
       LET t == template.obj[k]
           v == element.obj[k]
       IN CASE "num" \in DOMAIN t -> "num" \in DOMAIN v /\ v.num = t.num
            [] "str" \in DOMAIN t -> "str" \in DOMAIN v /\ v.str = t.str
            [] OTHER -> HasAllOf(v, t)

\* C24: containsMatch(template, array) is false for an empty array whatever
\* the template, true for an empty template and any array that is not empty,
\* and otherwise true exactly when some element of the array has every key of
\* the template with an equal value, compared recursively for structured
\* values; extra keys in the element are allowed.
C24_ContainsMatch ==
  last.op = "containsMatch"
    => /\ last.array = <<>> => ~last.result
       /\ (DOMAIN last.template.obj = {} /\ last.array # <<>>) => last.result
       /\ last.result
            <=> \E i \in 1..Len(last.array) :
                  HasAllOf(last.array[i], last.template)

\* C24 witness: the array template [1, 2, 3] was found in an array holding
\* [1, 2, 4] and [1, 2, 3, 4]
C24_Witness ==
  /\ last.op = "containsMatch"
  /\ last.template = Arr(<<Num(1), Num(2), Num(3)>>)
  /\ last.array = <<Arr(<<Num(1), Num(2), Num(4)>>),
                    Arr(<<Num(1), Num(2), Num(3), Num(4)>>)>>
  /\ last.result

\* C24, the array template against shorter and different arrays: not found
C24_WitnessNoMatch ==
  /\ last.op = "containsMatch"
  /\ last.template = Arr(<<Num(1), Num(2), Num(3)>>)
  /\ last.array = <<Arr(<<Num(1), Num(2)>>),
                    Arr(<<Num(1), Num(2), Num(4)>>)>>
  /\ ~last.result


---------------------------------------------------------------------------
(* Claims about shallowSort (SpecSort) *)

\* how often value v occurs in the sequence
Occurrences(seq, v) == Cardinality({i \in 1..Len(seq) : seq[i] = v})

\* C25: shallowSort(cmp, xs) returns a new sequence, leaves xs unchanged and
\* returns a permutation of xs ordered by cmp: with the boolean comparator
\* cmp(a, b) = a > b of the tests the result is in ascending order, for empty
\* and already sorted input too.
C25_ShallowSortAscending ==
  last.op = "shallowSort"
    => /\ ~last.sameObject
       /\ last.array = last.given
       /\ Len(last.result) = Len(last.given)
       /\ \A v \in 1..MaxValue :
            Occurrences(last.result, v) = Occurrences(last.given, v)
       /\ \A i \in 1..Len(last.result) : \A j \in 1..Len(last.result) :
            i < j => last.result[i] <= last.result[j]


---------------------------------------------------------------------------
(* Claims about contains (SpecContains) *)

\* C26: contains(x, seq) is true exactly when x is an element of seq; it is
\* false for every x when seq is empty and true when x occurs anywhere in a
\* sequence of mixed numbers and strings.
C26_ContainsIsMembership ==
  last.op = "contains"
    => /\ last.result
            <=> last.element \in {last.array[i] : i \in 1..Len(last.array)}
       /\ last.array = <<>> => ~last.result

\* C26 witness: 'a' was found behind 'b' in an array that also holds a number
C26_Witness ==
  /\ last.op = "contains"
  /\ last.element = String("a")
  /\ last.array = <<String("b"), String("a"), Num(1)>>
  /\ last.result


---------------------------------------------------------------------------
(* Claims about the outbound queue and the connected event (SpecQueue) *)

\* the step has put message m on a connection or on the rendezvous
TransmittedInStep(m) ==
  \E k \in 1..Len(out') : /\ out'[k].msg.mid = m.mid
                          /\ out'[k].msg.type = m.type
                          /\ out'[k].msg.to = m.to

\* C27: a queued entry that has no timeout leaves the outbound queue only by
\* being transmitted: across any interleaving of send, maintenance ticks and
\* connected events (entries of a heavy type included) no such entry
\* disappears from the queue without having been sent on a connection or on
\* the rendezvous.
C27_NoTimeoutLeavesOnlySent ==
  [][\A i \in 1..Len(queue) :
       "timeout" \notin DOMAIN queue[i]
         => \/ \E j \in 1..Len(queue') : queue'[j] = queue[i]
            \/ TransmittedInStep(queue[i].message)]_vars


\* C28: when the connected event for remote r is handled, every queued entry
\* with message.to = r is transmitted on the connection to r during that
\* handling, and every other queued entry stays in the queue in its original
\* relative order.
C28_ConnectedFlushesQueue ==
  [][last'.op = "connected"
       => /\ \A i \in 1..Len(queue) :
               queue[i].message.to = last'.from
                 => \E k \in 1..Len(out') :
                      /\ out'[k].on = last'.from
                      /\ out'[k].msg.mid = queue[i].message.mid
                      /\ out'[k].msg.type = queue[i].message.type
          /\ queue' = SelectSeq(queue,
                                LAMBDA elt : elt.message.to # last'.from)]_vars


---------------------------------------------------------------------------
(* Claims about the fallback of broadcast (Spec) *)

\* C29: when broadcast(m) finds zero eligible neighbours and m.from is the
\* peer's own id, the outcome depends only on the rendezvous state: open -> m
\* is sent on the rendezvous and the call succeeds; closing or closed -> the
\* 'signal' entry of the connection table is replaced by a new rendezvous
\* channel, nothing is sent and the call fails; connecting -> nothing is
\* sent, nothing is replaced and the call fails.
C29_BroadcastFallback ==
  [][(/\ last'.op = "broadcast"
      /\ BroadcastTargets(Here, last'.arg) = <<>>
      /\ last'.arg.from = Self)
       => /\ \A r \in Remotes : conn'[r] = conn[r]
          /\ CASE conn["signal"] = "open" ->
                    /\ Len(out') = 1
                    /\ out'[1].on = "signal"
                    /\ \A f \in DOMAIN last'.arg \ {"ttl"} :
                         out'[1].msg[f] = last'.arg[f]
                    /\ last'.ok /\ ~last'.renewed
                    /\ conn'["signal"] = "open"
               [] conn["signal"] \in {"closing", "closed"} ->
                    /\ last'.renewed
                    /\ conn'["signal"] = "connecting"
                    /\ out' = <<>>
                    /\ ~last'.ok
               [] conn["signal"] = "connecting" ->
                    /\ out' = <<>>
                    /\ ~last'.renewed
                    /\ conn'["signal"] = "connecting"
                    /\ ~last'.ok]_vars

\* C29 witness: a broadcast of the peer's own message with no open neighbour
\* found the rendezvous closed and stored a new channel
C29_Witness ==
  /\ last.op = "broadcast"
  /\ last.arg.from = Self
  /\ last.renewed /\ ~last.ok
  /\ out = <<>>
  /\ conn["signal"] = "connecting"


---------------------------------------------------------------------------
(* Claims about the request-peer entries of the queue (SpecRequeue) *)

\* entries i and j of the queue are requests for peers with the same from/to
SameRequest(i, j) ==
  /\ queue[i].message.type = "request-peer"
  /\ queue[j].message.type = "request-peer"
  /\ queue[i].message.from = queue[j].message.from
  /\ queue[i].message.to = queue[j].message.to

\* C30 (as stated): in every reachable state the outbound queue holds at most
\* one request-peer entry for any given (from, to) pair, whatever sequence of
\* sends and maintenance ticks produced it.
C30_Original ==
  \A i, j \in 1..Len(queue) : SameRequest(i, j) => i = j

\* C30 (amended): in every reachable state the outbound queue holds at most
\* one request-peer entry for any given (from, to) pair whose destination is
\* a peer; entries addressed to 'signal' or 'source' are queued as they come
\* and may repeat.
C30_OneRequestPeerPerPeer ==
  \A i, j \in 1..Len(queue) :
    (SameRequest(i, j) /\ ~contains(queue[i].message.to, <<"signal", "source">>))
      => i = j

\* C30 witness: a request for B was sent while another waited in the queue;
\* it was neither transmitted nor queued
C30_Witness ==
  /\ last.op = "send"
  /\ last.arg.type = "request-peer"
  /\ last.arg.to = "B"
  /\ out = <<>>
  /\ \E i \in 1..Len(queue) : /\ queue[i].message.type = "request-peer"
                              /\ queue[i].message.to = "B"
  /\ \A i \in 1..Len(queue) : queue[i].message.mid # last.arg.mid


---------------------------------------------------------------------------
(* Claims about the re-queue policy (SpecRequeue) *)

\* a request-peer built by requestPeer during the step
IsFreshRequest(message) ==
  message.type = "request-peer" /\ message.from = Self /\ message.mid = 0

\* the step has put a fresh request-peer on a connection or in the queue
FreshRequestsInStep ==
  {out'[k].msg : k \in {n \in 1..Len(out') : IsFreshRequest(out'[n].msg)}}
  \cup {queue'[j].message :
          j \in {n \in 1..Len(queue') :
                   /\ IsFreshRequest(queue'[n].message)
                   /\ \A i \in 1..Len(queue) : queue[i] # queue'[n]}}

\* the message handed to send waits in the queue after the step
SentIsQueued ==
  /\ last'.op = "send"
  /\ ~last'.err
  /\ \E j \in 1..Len(queue') : queue'[j].message = last'.arg

\* C31: when a message cannot be routed and is re-queued, a fresh
\* request-peer(to = message.to) is emitted if and only if the destination is
\* neither "signal" nor "source" and the message is not itself a
\* request-peer; messages to "signal" or "source" are re-queued unchanged and
\* never cause a request-peer.  (A request that finds one for the same pair
\* waiting in the queue is emitted and dropped by the look-up.)
C31_RequeuePolicy ==
  [][/\ SentIsQueued =>
          LET m == last'.arg IN
          /\ (m.type # "request-peer" /\ ~contains(m.to, <<"signal", "source">>))
               => \/ \E r \in FreshRequestsInStep : r.to = m.to
                  \/ \E i \in 1..Len(queue) :
                       /\ queue[i].message.type = "request-peer"
                       /\ queue[i].message.from = Self
                       /\ queue[i].message.to = m.to
          /\ (m.type = "request-peer" \/ contains(m.to, <<"signal", "source">>))
               => FreshRequestsInStep = {}
          /\ contains(m.to, <<"signal", "source">>)
               => /\ out' = <<>>
                  /\ Len(queue') = Len(queue) + 1
                  /\ SubSeq(queue', 1, Len(queue)) = queue
     /\ last'.op \in {"send", "tick", "connected"}
          => \A r \in FreshRequestsInStep :
               /\ ~contains(r.to, <<"signal", "source">>)
               /\ \/ last'.op = "send" /\ last'.arg.to = r.to
                                        /\ last'.arg.type # "request-peer"
                  \/ \E i \in 1..Len(queue) :
                       /\ queue[i].message.to = r.to
                       /\ queue[i].message.type # "request-peer"]_vars

\* C31 witness: a message for B waits in the queue and the request for B it
\* caused went out on the rendezvous
C31_Witness ==
  /\ last.op = "send"
  /\ last.arg.type = "foo" /\ last.arg.to = "B"
  /\ \E j \in 1..Len(queue) : queue[j].message = last.arg
  /\ \E k \in 1..Len(out) : /\ out[k].on = "signal"
                            /\ out[k].msg.type = "request-peer"
                            /\ out[k].msg.to = "B"

\* C31 witness: a message for the rendezvous waits in the queue and nothing
\* was sent
C31_WitnessSignal ==
  /\ last.op = "send"
  /\ last.arg.type = "foo" /\ last.arg.to = "signal"
  /\ \E j \in 1..Len(queue) : queue[j].message = last.arg
  /\ out = <<>>


---------------------------------------------------------------------------
(* Claims about the handshake handlers (SpecShake) *)

\* C32: an answer from r received when there is no connection to r in state
\* connecting (no connection at all, or one that is open, closing or closed)
\* is ignored: no remote description is applied, no error escapes the
\* handler, and the connection table is unchanged.
C32_StrayAnswerIgnored ==
  [][(last'.op = "answer" /\ conn[last'.from] # "connecting")
       => /\ ~last'.applied
          /\ ~last'.threw
          /\ conn' = conn]_vars


\* the step is the completion of the SDP of kind `type' asked for message p
SdpCompleted(type, p) ==
  /\ last'.op = "respond"
  /\ \E i \in 1..Len(pendingSdp) :
       /\ pendingSdp[i] = [type |-> type, message |-> p]
       /\ pendingSdp' = RemoveAt(pendingSdp, i)

\* the step has handed to send a message of kind `type' addressed to r: it
\* went out, or it waits in the queue
HandedToSend(type, r) ==
  \/ \E k \in 1..Len(out') : /\ out'[k].msg.type = type
                             /\ out'[k].msg.from = Self
                             /\ out'[k].msg.to = r
  \/ /\ Len(queue') > Len(queue)
     /\ \E j \in (Len(queue) + 1)..Len(queue') :
          /\ queue'[j].message.type = type
          /\ queue'[j].message.from = Self
          /\ queue'[j].message.to = r

\* C33: handling an offer from r puts a connection to r in the connection
\* table, applies to it every candidate previously buffered for r, leaves the
\* ICE candidate buffer with no entry for r, and sends an answer addressed to
\* r (once the answer was produced).
C33_OfferHandled ==
  [][/\ last'.op = "offer"
          => /\ conn'[last'.from] = "connecting"
             /\ last'.applied = icecandidates[last'.from]
             /\ icecandidates'[last'.from] = {}
             /\ \A r \in Remotes \ {last'.from} :
                  icecandidates'[r] = icecandidates[r]
             /\ \E i \in 1..Len(pendingSdp') :
                  /\ pendingSdp'[i].type = "answer"
                  /\ pendingSdp'[i].message.from = last'.from
     /\ \A p \in OfferInputs :
          SdpCompleted("answer", p) => HandedToSend("answer", p.from)]_vars

\* C33 witness: the answer to B's offer left on the rendezvous, B's buffered
\* candidate having been applied to the new connection
C33_Witness ==
  /\ last.op = "respond" /\ last.to = "B"
  /\ conn["B"] = "connecting"
  /\ icecandidates["B"] = {}
  /\ \E k \in 1..Len(out) : /\ out[k].msg.type = "answer"
                            /\ out[k].msg.to = "B"

\* C33 witness: an offer from B found a buffered candidate and applied it
C33_WitnessApplied ==
  /\ last.op = "offer" /\ last.from = "B"
  /\ last.applied = {"c1"}
  /\ icecandidates["B"] = {}
  /\ conn["B"] = "connecting"


\* the offers the step has asked a connection to produce
OffersAsked ==
  IF Len(pendingSdp') > Len(pendingSdp) /\ pendingSdp'[Len(pendingSdp')].type = "offer"
  THEN {pendingSdp'[Len(pendingSdp')].message.from}
  ELSE {}

\* C34: handling a request-peer from r creates a new connection to r and
\* replies with an offer to r only if there is no live (non-closed)
\* connection to r; when a connection to r exists in state connecting, open
\* or closing, the connection table is unchanged and no offer is sent.
C34_RequestPeerOnlyWithoutLive ==
  [][/\ last'.op = "request-peer"
          => IF conn[last'.from] \in {"connecting", "open", "closing"}
             THEN /\ ~last'.created
                  /\ conn' = conn
                  /\ pendingSdp' = pendingSdp
                  /\ out' = <<>>
             ELSE /\ last'.created
                  /\ conn'[last'.from] = "connecting"
                  /\ \A k \in Keys \ {last'.from} : conn'[k] = conn[k]
                  /\ OffersAsked = {last'.from}
     /\ \A r \in OffersAsked :
          /\ last'.op = "request-peer" /\ last'.from = r
          /\ conn[r] \in {"none", "closed"}
     /\ \A p \in RequestPeerInputs :
          SdpCompleted("offer", p) => HandedToSend("offer", p.from)
     /\ \A k \in 1..Len(out') :
          out'[k].msg.type = "offer"
            => \/ \E p \in RequestPeerInputs :
                    p.from = out'[k].msg.to /\ SdpCompleted("offer", p)
               \/ \E i \in 1..Len(queue) :
                    /\ queue[i].message.type = "offer"
                    /\ queue[i].message.to = out'[k].msg.to]_vars

\* C34 witness: a request-peer from B found the open connection to B and
\* left it alone
C34_Witness ==
  /\ last.op = "request-peer" /\ last.from = "B"
  /\ ~last.created
  /\ conn["B"] = "open"
  /\ pendingSdp = <<>>

\* C34 witness: a request-peer from B replaced the closed connection to B
C34_WitnessCreated ==
  /\ last.op = "request-peer" /\ last.from = "B"
  /\ last.created
  /\ conn["B"] = "connecting"


---------------------------------------------------------------------------
(* Claims about the maintenance of the connection table (SpecShake) *)

\* C35: after each maintenance tick, every non-rendezvous connection observed
\* in state closed has been removed from the connection table and every
\* non-rendezvous open connection idle longer than the inactivity threshold
\* has been closed; the rendezvous ('signal') entry is never closed or
\* removed by maintenance, and connections in state connecting are left
\* untouched.
C35_MaintenanceCleansTable ==
  [][/\ last'.op = "tick"
          => /\ \A r \in Remotes :
                  /\ conn[r] = "closed" => conn'[r] = "none"
                  /\ conn[r] = "connecting" => conn'[r] = "connecting"
                  /\ conn'[r] # "closed"
                  /\ conn'[r] # conn[r]
                       => /\ conn[r] \in {"open", "closed"}
                          /\ conn'[r] \in {"closing", "none"}
             /\ conn'["signal"] # "none"
             /\ conn'["signal"] # conn["signal"]
                  => /\ conn["signal"] \in {"closing", "closed"}
                     /\ conn'["signal"] = "connecting"
     /\ \A idle \in SUBSET Remotes, closeTo \in {"closing", "closed"} :
          (last'.op = "tick" /\ Tick(idle, closeTo))
            => \A r \in idle :
                 conn[r] = "open" => conn'[r] \in {"closing", "none"}]_vars

\* C35 witness: maintenance has removed the connection to B that an offer
\* from B had created, and the connection to C is still connecting
C35_Witness ==
  /\ last.op = "tick"
  /\ conn["B"] = "none"
  /\ conn["C"] = "connecting"
  /\ \E i \in 1..Len(pendingSdp) : /\ pendingSdp[i].type = "answer"
                                   /\ pendingSdp[i].message.from = "B"


---------------------------------------------------------------------------
(* Claims about the weight of a connection (SpecGossip) *)

\* the weight is a pair {incoming, outgoing} of light / heavy
IsWeightPair(w) ==
  /\ DOMAIN w = {"incoming", "outgoing"}
  /\ w.incoming \in {"light", "heavy"}
  /\ w.outgoing \in {"light", "heavy"}

\* C36: on ack-heavy (resp. ack-light) from r only the outgoing weight of the
\* connection to r changes, to heavy (resp. light); its incoming weight is
\* unchanged, noack-heavy and noack-light change nothing, and after any
\* weight message every connection's weight is still a pair
\* {incoming, outgoing} with both components in {light, heavy}.
C36_AckChangesOutgoingOnly ==
  [][(last'.op = "weight" /\ conn[last'.from] # "none")
       => LET r == last'.from IN
          /\ last'.data = "ack-heavy"
               => weight'[r] = [incoming |-> Incoming(weight[r]),
                                outgoing |-> "heavy"]
          /\ last'.data = "ack-light"
               => weight'[r] = [incoming |-> Incoming(weight[r]),
                                outgoing |-> "light"]
          /\ last'.data \in {"noack-heavy", "noack-light"}
               => weight' = weight
          /\ \A k \in Remotes : IsWeightPair(weight'[k])]_vars


---------------------------------------------------------------------------
(* Claims about the submissions of a part (SpecMedia) *)

\* where the buffer of part p was handed to a source buffer: <<g, i>> is the
\* i-th submission to the source buffer of MediaSource g
Submissions(p) ==
  UNION {{<<g, i>> : i \in {j \in 1..Len(submitted[g]) :
                             /\ IsPartItem(submitted[g][j])
                             /\ submitted[g][j].partNumber = p}} :
         g \in 1..Len(submitted)}

\* C37: for every part, its buffer is submitted to the playback pipeline
\* exactly once over any sequence of append calls (whole or chunked,
\* including duplicate, out-of-order or late chunks): never twice, and once
\* when the part is added.
C37_PartSubmittedOnce ==
  \A p \in 0..(NumParts - 1) :
    /\ Cardinality(Submissions(p)) <= 1
    /\ (p \in DOMAIN parts /\ parts[p].status = "added")
         => Cardinality(Submissions(p)) = 1


---------------------------------------------------------------------------
(* Claims about heavy messages after the upgrade was granted (SpecHeavy) *)

\* the heavy message of send call mid waits for B without a timeout
HeavyWaits(mid) ==
  \E i \in 1..Len(queue) : /\ queue[i].message.mid = mid
                           /\ isHeavy(queue[i].message)
                           /\ queue[i].message.to = "B"
                           /\ "timeout" \notin DOMAIN queue[i]

\* B has just granted the upgrade and its connection is open
Granted ==
  /\ last.op = "weight" /\ last.from = "B" /\ last.data = "ack-heavy"
  /\ conn["B"] = "open"

\* the heavy message of send call mid went out on the connection to B
HeavySent(mid) ==
  \E k \in 1..Len(out) : /\ out[k].on = "B"
                         /\ out[k].msg.mid = mid
                         /\ isHeavy(out[k].msg)

\* C38: a heavy message queued for an open neighbour r is eventually
\* transmitted to r once r has granted the upgrade with ack-heavy, given that
\* maintenance ticks keep firing, the connection stays open and the entry has
\* no timeout.
C38_HeavySentOnceGranted ==
  \A mid \in 1..MaxSends :
    [](Granted /\ HeavyWaits(mid) => <>HeavySent(mid))


---------------------------------------------------------------------------
(* Claims about connections that exist when a handshake message arrives *)
(* (SpecShake)                                                           *)

\* C39: handshake handlers never replace a live connection: if the
\* connection table already holds a non-closed connection to r (for example
\* the offering-side connection created when two peers send each other
\* request-peer at the same time), handling an offer or a request-peer from r
\* leaves that entry in place, so each side ends the exchange with the
\* single connection it created first.
C39_LiveConnectionKept ==
  [][(/\ last'.op \in {"offer", "request-peer"}
      /\ conn[last'.from] \in {"connecting", "open", "closing"})
       => /\ conn'[last'.from] = conn[last'.from]
          /\ weight'[last'.from] = weight[last'.from]
          /\ pendingSdp' = pendingSdp]_vars


---------------------------------------------------------------------------
(* Claims about the message respondTo answers (SpecGossip) *)

\* C40: respondTo(original, partial), including the routing of the reply it
\* triggers, leaves the original message unchanged; in particular
\* original.forward_by keeps all its entries in order after the reply has
\* been sent via its route hint.
C40_OriginalUnchangedByReply ==
  (last.op = "weight" /\ last.reply # "none") => last.original = last.arg
=============================================================================
